---------------------------- MODULE Spec2Model ----------------------------
(***************************************************************************)
(* Model of MCP-Plus: the context engine (repository scan, search-match    *)
(* scoring, validated file selection, analysis call) as implemented in     *)
(* src/context_engine/context_engine.py and wired in src/mcp_server.py,    *)
(* the chatroom (src/chatroom/chatroom.py), the todo list                  *)
(* (src/todo/todo.py) and the sub-agent (src/subagent/subagent.py).        *)
(*                                                                         *)
(* Text is modelled at the character level: a string is a sequence of     *)
(* one-character strings, a text is the sequence of its lines (what        *)
(* str.split('\n') yields).                                                *)
(***************************************************************************)
EXTENDS Integers, Sequences, FiniteSets, TLC

VARIABLES
    \* ---- ContextEngine.select_relevant_files
    validation_file_list,   \* the ground-truth list (all_files of the scan)
    max_files,              \* the cap given by the caller
    response_text,          \* the reasoning step's reply, as its lines
    selected_files,         \* the list being built
    lineIdx,                \* number of response lines consumed by the loop
    selPc,                  \* "idle" | "start" | "parse" | "done" | "raised"
    \* ---- the directory root_dir on disk
    tree,                   \* the files under root_dir, each as its components
    gitignore,              \* root_dir/.gitignore: whether it exists, its lines
    file_lines,             \* relative path -> the lines readlines() returns
    file_attrs,             \* relative path -> how open() and decoding fare
    \* ---- ContextEngine.scan_files
    all_files,              \* what scan_files returned
    scanPc,                 \* "idle" | "start" | "done" | "raised"
    \* ---- ContextEngine.get_search_match_counts
    queries,                \* the search queries
    results,                \* the match report: path -> (query -> count)
    mtRaised,               \* the exception that left the function, or "none"
    mtPc,                   \* "idle" | "start" | "done"
    \* ---- the reasoning-step client (self.client.chat.completions.create)
    llmCalls,               \* the calls made so far, by purpose
    \* ---- mcp_server.context_engine / ContextEngine.get_codebase_context
    api_key,                \* OPENROUTER_API_KEY is set
    path_exists,            \* os.path.exists(abs_path)
    exc,                    \* the stage whose exception ended the query, or "none"
    file_contents_parts,    \* the content packet: [path, content] per file
    answer,                 \* message.content of the analysis call
    result,                 \* what the tool returns
    ctxPc,                  \* "idle" | "start" | "scan" | "score" | "select"
                            \*   | "done"
    \* ---- ContextEngine.get_file_content
    rel_path,               \* the file asked for
    max_lines,              \* the line cap given by the caller
    file_content,           \* the returned text, as its lines
    gfcPc,                  \* "idle" | "start" | "done"
    \* ---- chatroom.ChatroomManager
    chat_files,             \* project path -> its chatroom file on disk
    chat_lock,              \* self.lock: the thread that holds it, or 0
    chat_pc,                \* thread -> "idle" | "send_locked" | "send_read"
    chat_call,              \* thread -> the arguments of its running call
    chatroom_data,          \* thread -> the messages _read_chatroom gave it
    chat_ret,               \* the call that returned last, with its result
    \* ---- todo.TodoManager
    todo_files,             \* project path -> its todo file on disk
    todo_lock,              \* self.lock: the thread that holds it, or 0
    todo_pc,                \* thread -> "idle" | "update" | "remove"
    todo_call,              \* thread -> the arguments of its running call
    todos,                  \* thread -> the list _read_todos gave it
    todo_ret,               \* the call that returned last, with its result
    \* ---- subagent.SubAgent.execute_task
    context_engine,         \* self.context_engine: "None" or "ContextEngine"
    context_path,           \* what abs_path is: "missing" | "file" | "dir"
    messages,               \* the conversation sent to the LLM
    tool_history,           \* self.tool_history
    iteration,              \* the loop counter
    execution_log,          \* the parts of the response collected so far
    tool_calls,             \* assistant_message.tool_calls being executed
    tool_idx,               \* how many of them have been executed
    response,               \* what execute_task returned, as its parts
    agPc                    \* "idle" | "start" | "loop" | "tools" | "summary"
                            \*   | "end" | "returned" | "raised"

selVars == <<validation_file_list, max_files, response_text, selected_files,
             lineIdx, selPc>>

diskVars == <<tree, gitignore, file_lines, file_attrs>>

scanVars == <<all_files, scanPc>>

mtVars == <<queries, results, mtRaised, mtPc>>

ctxVars == <<api_key, path_exists, exc, file_contents_parts, answer, result,
             ctxPc>>

contentVars == <<rel_path, max_lines, file_content, gfcPc>>

chatVars == <<chat_files, chat_lock, chat_pc, chat_call, chatroom_data,
              chat_ret>>

todoVars == <<todo_files, todo_lock, todo_pc, todo_call, todos, todo_ret>>

agentVars == <<context_engine, context_path, messages, tool_history,
               iteration, execution_log, tool_calls, tool_idx, response, agPc>>

vars == <<selVars, diskVars, scanVars, mtVars, llmCalls, ctxVars, contentVars,
          chatVars, todoVars, agentVars>>

\* A component that is not running in the specification at hand.
SelIdle ==
    /\ validation_file_list = <<>>
    /\ max_files = 0
    /\ response_text = <<>>
    /\ selected_files = <<>>
    /\ lineIdx = 0
    /\ selPc = "idle"

DiskIdle ==
    /\ tree = {}
    /\ gitignore = [exists |-> FALSE, lines |-> <<>>]
    /\ file_lines = <<>>
    /\ file_attrs = <<>>

ScanIdle ==
    /\ all_files = <<>>
    /\ scanPc = "idle"

MtIdle ==
    /\ queries = <<>>
    /\ results = <<>>
    /\ mtRaised = "none"
    /\ mtPc = "idle"

ContentIdle ==
    /\ rel_path = <<>>
    /\ max_lines = 0
    /\ file_content = <<>>
    /\ gfcPc = "idle"

\* The threads that call into one ChatroomManager.
Threads == {1, 2}

NoCall == [op |-> "none"]

ChatIdle ==
    /\ chat_files = <<>>
    /\ chat_lock = 0
    /\ chat_pc = [t \in Threads |-> "idle"]
    /\ chat_call = [t \in Threads |-> NoCall]
    /\ chatroom_data = [t \in Threads |-> <<>>]
    /\ chat_ret = NoCall

TodoIdle ==
    /\ todo_files = <<>>
    /\ todo_lock = 0
    /\ todo_pc = [t \in Threads |-> "idle"]
    /\ todo_call = [t \in Threads |-> NoCall]
    /\ todos = [t \in Threads |-> <<>>]
    /\ todo_ret = NoCall

AgentIdle ==
    /\ context_engine = "None"
    /\ context_path = "dir"
    /\ messages = <<>>
    /\ tool_history = <<>>
    /\ iteration = 0
    /\ execution_log = <<>>
    /\ tool_calls = <<>>
    /\ tool_idx = 0
    /\ response = <<>>
    /\ agPc = "idle"

\* How a file reads: "text" decodes as UTF-8, "binary" does not, "denied"
\* cannot be opened; newline tells whether the last line ends in '\n'.
TextFile == [kind |-> "text", newline |-> TRUE]

FileKinds == {"text", "binary", "denied"}

\* The tool has returned nothing (yet).
NoResult == [kind |-> "none", parts |-> <<>>]

CtxIdle ==
    /\ api_key = TRUE
    /\ path_exists = TRUE
    /\ exc = "none"
    /\ file_contents_parts = <<>>
    /\ answer = <<>>
    /\ result = NoResult
    /\ ctxPc = "idle"

\* A call that is sent twice (a retry).
LLMCallRetried(calls, purpose) == calls \o <<purpose, purpose>>

\* One more call of self.client.chat.completions.create, for `purpose`.
LLMCall(calls, purpose) == Append(calls, purpose)

----------------------------------------------------------------------------
(* Characters and Python's str helpers                                     *)

\* The back-tick character (the one character a TLA+ string cannot hold).
BackTick == "BQ"

\* Code points of the characters the model uses (Python compares str by them).
Ord(c) ==
    CASE c = " " -> 32 [] c = "(" -> 40 [] c = "*" -> 42 [] c = "-" -> 45
      [] c = "." -> 46 [] c = "/" -> 47 [] c = "0" -> 48 [] c = "1" -> 49
      [] c = "2" -> 50 [] c = "3" -> 51 [] c = "4" -> 52 [] c = "5" -> 53
      [] c = "6" -> 54 [] c = "7" -> 55 [] c = "8" -> 56 [] c = "9" -> 57
      [] c = ":" -> 58 [] c = "@" -> 64 [] c = "A" -> 65 [] c = "D" -> 68
      [] c = "S" -> 83 [] c = "[" -> 91
      [] c = "]" -> 93 [] c = "_" -> 95 [] c = BackTick -> 96 [] c = "a" -> 97
      [] c = "b" -> 98 [] c = "c" -> 99 [] c = "d" -> 100 [] c = "e" -> 101
      [] c = "g" -> 103 [] c = "i" -> 105 [] c = "k" -> 107 [] c = "l" -> 108 [] c = "n" -> 110
      [] c = "o" -> 111 [] c = "p" -> 112 [] c = "r" -> 114 [] c = "s" -> 115
      [] c = "t" -> 116 [] c = "u" -> 117 [] c = "x" -> 120 [] c = "y" -> 121
      [] c = "{" -> 123 [] c = "}" -> 125

Range(s) == {s[i] : i \in 1..Len(s)}

\* Python's s1 < s2 on str: lexicographic by code point, a proper prefix first.
RECURSIVE StrLess(_, _)
StrLess(s, t) ==
    IF t = <<>> THEN FALSE
    ELSE IF s = <<>> THEN TRUE
    ELSE IF Head(s) = Head(t) THEN StrLess(Tail(s), Tail(t))
    ELSE Ord(Head(s)) < Ord(Head(t))

\* A list is in the order sorted() gives, without repetition.
IsSortedStrict(l) == \A i \in 1..(Len(l) - 1) : StrLess(l[i], l[i + 1])

\* str.lstrip(chars): drop the leading characters that are in chars.
RECURSIVE LStrip(_, _)
LStrip(s, chars) ==
    IF s # <<>> /\ Head(s) \in chars THEN LStrip(Tail(s), chars) ELSE s

\* str.rstrip(chars).
RECURSIVE RStrip(_, _)
RStrip(s, chars) ==
    IF s # <<>> /\ s[Len(s)] \in chars
    THEN RStrip(SubSeq(s, 1, Len(s) - 1), chars) ELSE s

\* str.strip(chars).
Strip(s, chars) == RStrip(LStrip(s, chars), chars)

\* The whitespace str.strip() removes (the characters of it the model draws).
Whitespace == {" "}

\* s starts with prefix p at position i (1-based).
OccursAt(s, p, i) ==
    /\ i >= 1
    /\ i + Len(p) - 1 <= Len(s)
    /\ SubSeq(s, i, i + Len(p) - 1) = p

\* `sep in s`.
Contains(s, sep) == \E i \in 1..Len(s) : OccursAt(s, sep, i)

\* s.split(sep)[0]: the text before the first occurrence of sep (all of s
\* when sep does not occur).
SplitFirst(s, sep) ==
    IF Contains(s, sep)
    THEN LET i == CHOOSE k \in 1..Len(s) :
                    /\ OccursAt(s, sep, k)
                    /\ \A j \in 1..(k - 1) : ~OccursAt(s, sep, j)
         IN SubSeq(s, 1, i - 1)
    ELSE s

----------------------------------------------------------------------------
(* ContextEngine.select_relevant_files                                     *)

\* The characters line 154 strips from the left: '*- 0123456789.'
ListMarkerChars == {"*", "-", " ", "0", "1", "2", "3", "4", "5", "6", "7",
                    "8", "9", "."}

\* Lines 152-159: the candidate a response line is reduced to.
CleanLine(line) ==
    LET l1 == Strip(line, Whitespace)
        l2 == Strip(LStrip(l1, ListMarkerChars), Whitespace)
        l3 == Strip(l2, {BackTick})
    IN IF Contains(l3, <<" ", "[">>) THEN SplitFirst(l3, <<" ", "[">>) ELSE l3

\* Line 162 with the validation dropped: any non-empty candidate is taken.
IsValidCandidateNoCheck(cand, files) == cand # <<>>

\* Line 162: `if line and line in validation_file_list`.
IsValidCandidate(cand, files) == cand # <<>> /\ cand \in Range(files)


\* The inputs the selection is explored over.
MaxLines == 2
MaxFilesBound == 2

\* ".ci", "src/a" : files of the repository; "b.py" : a path that is never
\* in the scanned list (the reasoning step made it up).
PathDot == <<".", "c", "i">>
PathSrc == <<"s", "r", "c", "/", "a">>
PathHallucinated == <<"b", ".", "p", "y">>

\* The lists scan_files can return over these files: sorted, no repetition.
GroundTruthLists ==
    {l \in {<<>>, <<PathDot>>, <<PathSrc>>, <<PathDot, PathSrc>>,
            <<PathSrc, PathDot>>} : IsSortedStrict(l)}

\* The shapes of a response line that names the path p.
AsBullet(p) == <<"-", " ">> \o p
AsStar(p) == <<"*", " ">> \o p
AsNumbered(p) == <<"1", ".", " ">> \o p
AsBackTicked(p) == <<BackTick>> \o p \o <<BackTick>>
AsAnnotated(p) == p \o <<" ", "[", "t", ":", " ", "1", "]">>
LineForms(p) ==
    {p, AsBullet(p), AsStar(p), AsNumbered(p), AsBackTicked(p), AsAnnotated(p)}

ProseLine == <<" ", "n", "o", "t", "e", ":", " ", "x">>
EmptyLine == <<>>

ResponseLines ==
    UNION {LineForms(p) : p \in {PathDot, PathSrc, PathHallucinated}}
        \cup {ProseLine, EmptyLine}

\* What the reasoning step can answer: 1..MaxLines lines ("" is one empty line).
Responses == UNION {[1..n -> ResponseLines] : n \in 1..MaxLines}

\* select_relevant_files is entered with a scanned list and a cap.
SelInit ==
    /\ validation_file_list \in GroundTruthLists
    /\ max_files \in 0..MaxFilesBound
    /\ response_text = <<>>
    /\ selected_files = <<>>
    /\ lineIdx = 0
    /\ selPc = "start"
    /\ llmCalls = <<>>
    /\ DiskIdle /\ ScanIdle /\ MtIdle /\ CtxIdle /\ ContentIdle /\ ChatIdle /\ TodoIdle
    /\ AgentIdle

\* Replies of the selection call explored inside a whole query, over the
\* files a.py and src.py of its tree.
QueryResponses ==
    { <<<<"a", ".", "p", "y">>>>,                                 \* a.py
      <<AsBullet(<<"s", "r", "c", ".", "p", "y">>),
        ProseLine, <<"a", ".", "p", "y">>>>,      \* - src.py / note: x / a.py
      <<PathHallucinated>>,                                       \* b.py
      <<EmptyLine>> }                                             \* ""

\* The replies explored: every response when the selection runs on its
\* own, a few over the files of the tree when it runs inside a query.
SelectionReplies == IF ctxPc = "idle" THEN Responses ELSE QueryResponses

\* Lines 139-149: the reasoning step is called; it answers (and
\* selected_files = []) or the call raises and the exception leaves the
\* function.
SelectCallLLM ==
    /\ selPc = "start"
    /\ llmCalls' = LLMCall(llmCalls, "selection")
    /\ \/ /\ response_text' \in SelectionReplies
          /\ selPc' = "parse"
       \/ /\ response_text' = response_text
          /\ selPc' = "raised"
    /\ selected_files' = <<>>
    /\ lineIdx' = 0
    /\ UNCHANGED <<validation_file_list, max_files>>
    /\ UNCHANGED <<diskVars, contentVars, chatVars, todoVars, agentVars, scanVars, mtVars, ctxVars>>

\* Lines 167-168 raising when nothing was selected.
SelectionOutcomeRaiseOnEmpty(sel) == IF sel = <<>> THEN "raised" ELSE "done"

\* Lines 167-168: the list is returned, whatever it holds.
SelectionOutcome(sel) == "done"

\* Lines 151-168: one iteration of the loop over the response lines; after
\* the last one the list is returned.
SelectParseLine ==
    /\ selPc = "parse"
    /\ lineIdx < Len(response_text)
    /\ LET cand == CleanLine(response_text[lineIdx + 1])
           valid == IsValidCandidate(cand, validation_file_list)
           sel == IF valid THEN Append(selected_files, cand)
                  ELSE selected_files
           stop == valid /\ Len(sel) >= max_files
       IN /\ selected_files' = sel
          /\ lineIdx' = lineIdx + 1
          /\ selPc' = IF stop \/ lineIdx + 1 = Len(response_text)
                      THEN SelectionOutcome(sel) ELSE "parse"
    /\ UNCHANGED <<validation_file_list, max_files, response_text>>
    /\ UNCHANGED <<diskVars, contentVars, chatVars, todoVars, agentVars, scanVars, mtVars, llmCalls, ctxVars>>

SelNext == SelectCallLLM \/ SelectParseLine

SpecSelect == (SelInit) /\ [][SelNext]_vars

\* The candidates of the first n response lines that pass the validation.
RECURSIVE ValidCandidates(_, _, _)
ValidCandidates(lines, n, files) ==
    IF n = 0 THEN <<>>
    ELSE LET c == CleanLine(lines[n])
         IN IF c # <<>> /\ c \in Range(files)
            THEN Append(ValidCandidates(lines, n - 1, files), c)
            ELSE ValidCandidates(lines, n - 1, files)

\* The paths the first n response lines name, read as the line shapes say:
\* a line that is a shape of a ground-truth path p stands for p, any other
\* line (prose, empty, a path outside the list) stands for nothing.
RECURSIVE NamedPaths(_, _, _)
NamedPaths(lines, n, files) ==
    IF n = 0 THEN <<>>
    ELSE LET ps == {p \in Range(files) : lines[n] \in LineForms(p)}
         IN IF ps # {}
            THEN Append(NamedPaths(lines, n - 1, files), CHOOSE p \in ps : TRUE)
            ELSE NamedPaths(lines, n - 1, files)

\* C1: every path select_relevant_files holds or returns is an element of
\* the ground-truth list, whatever the reasoning step answered.
C1_SelectedSubsetOfGroundTruth ==
    \A i \in 1..Len(selected_files) :
        selected_files[i] \in Range(validation_file_list)

\* C1 witness: a finished selection that accepted a path although the
\* response also named a path outside the list.
C1_Witness ==
    /\ selPc = "done"
    /\ selected_files # <<>>
    /\ \E i \in 1..lineIdx : response_text[i] \in LineForms(PathHallucinated)

\* C2: with the cap out of reach, the result is exactly the ground-truth
\* paths the response lines name (bare, after a list marker, back-ticked or
\* annotated), in the order of the lines, prose and empty lines dropped.
C2_EveryLineShapeAccepted ==
    (selPc = "done" /\ max_files > Len(response_text))
        => selected_files =
             NamedPaths(response_text, Len(response_text), validation_file_list)

\* C3: the result holds at most max_files paths, namely the first max_files
\* valid candidates in response order.
C3_AtMostMaxFiles ==
    selPc = "done" =>
        LET all == ValidCandidates(response_text, Len(response_text),
                                   validation_file_list)
        IN /\ Len(selected_files) <= max_files
           /\ selected_files =
                SubSeq(all, 1, IF Len(all) < max_files THEN Len(all)
                               ELSE max_files)

----------------------------------------------------------------------------
(* ContextEngine.get_ignore_spec and pathspec's gitwildmatch patterns      *)

\* The value of `gitignore` when root_dir has no .gitignore file; a file
\* that exists is [exists |-> TRUE, lines |-> what readlines() returns].
NoFile == [exists |-> FALSE, lines |-> <<>>]

\* Lines 49-62: the built-in patterns.
DefaultPatterns == <<
    <<".", "g", "i", "t", "/">>,
    <<"n", "o", "d", "e", "_", "m", "o", "d", "u", "l", "e", "s", "/">>,
    <<"v", "e", "n", "v", "/">>,
    <<"_", "_", "p", "y", "c", "a", "c", "h", "e", "_", "_", "/">>,
    <<".", "n", "e", "x", "t", "/">>,
    <<".", "D", "S", "_", "S", "t", "o", "r", "e">>,
    <<"*", ".", "p", "y", "c">>,
    <<".", "e", "n", "v">>,
    <<".", "e", "n", "v", ".", "l", "o", "c", "a", "l">>,
    <<"d", "i", "s", "t", "/">>,
    <<"b", "u", "i", "l", "d", "/">>,
    <<".", "c", "a", "c", "h", "e", "/">> >>

\* str.split('/'): the segments of s between slashes.
RECURSIVE SplitSlash(_)
SplitSlash(s) ==
    IF ~Contains(s, <<"/">>) THEN <<s>>
    ELSE LET head == SplitFirst(s, <<"/">>)
         IN <<head>> \o SplitSlash(SubSeq(s, Len(head) + 2, Len(s)))

\* '/'.join(components).
RECURSIVE JoinSlash(_)
JoinSlash(comps) ==
    IF comps = <<>> THEN <<>>
    ELSE IF Len(comps) = 1 THEN comps[1]
    ELSE comps[1] \o <<"/">> \o JoinSlash(Tail(comps))

\* A glob segment against one path component: '*' is any run of characters
\* (a component holds no '/'), every other character is itself.
RECURSIVE GlobMatch(_, _)
GlobMatch(p, s) ==
    IF p = <<>> THEN s = <<>>
    ELSE IF Head(p) = "*"
         THEN GlobMatch(Tail(p), s) \/ (s # <<>> /\ GlobMatch(p, Tail(s)))
         ELSE s # <<>> /\ Head(s) = Head(p) /\ GlobMatch(Tail(p), Tail(s))

\* gitwildmatch's reading of one pattern line: blank lines, comments and a
\* lone '/' match nothing; '!' negates; a leading or inner '/' anchors the
\* pattern at the root; a trailing '/' makes it match directories only.
ParsePattern(line) ==
    LET l0 == Strip(line, Whitespace \cup {"\n"})
        neg == l0 # <<>> /\ Head(l0) = "!"
        l1 == IF neg THEN Tail(l0) ELSE l0
        segs == SplitSlash(l1)
        lead == Len(segs) > 1 /\ segs[1] = <<>>
        s1 == IF lead THEN Tail(segs) ELSE segs
        dirOnly == Len(s1) > 1 /\ s1[Len(s1)] = <<>>
        s2 == IF dirOnly THEN SubSeq(s1, 1, Len(s1) - 1) ELSE s1
    IN [null |-> l0 = <<>> \/ Head(l0) = "#" \/ l1 = <<"/">> \/ l1 = <<>>
                 \/ \E i \in 1..Len(s2) : s2[i] = <<>>,
        negated |-> neg,
        anchored |-> lead \/ Len(s2) > 1,
        dirOnly |-> dirOnly,
        segs |-> s2]

\* One pattern against a path given as its components; isDir says the
\* path was passed with a trailing '/'. A pattern matches the entry it names
\* and everything below it.
MatchPattern(pat, comps, isDir) ==
    /\ ~pat.null
    /\ \E k \in 1..Len(comps) :
        LET last == k + Len(pat.segs) - 1
        IN /\ pat.anchored => k = 1
           /\ last <= Len(comps)
           /\ \A i \in 1..Len(pat.segs) : GlobMatch(pat.segs[i], comps[k + i - 1])
           /\ pat.dirOnly => (last < Len(comps) \/ isDir)

\* Lines 47-67: the defaults, then the lines of .gitignore when it exists,
\* compiled by PathSpec.from_lines.
get_ignore_spec(ignoreFile) ==
    LET patterns == IF ignoreFile.exists
                    THEN DefaultPatterns \o ignoreFile.lines
                    ELSE DefaultPatterns
    IN [i \in 1..Len(patterns) |-> ParsePattern(patterns[i])]

\* PathSpec.match_file: the last pattern that matches decides.
match_file(spec, comps, isDir) ==
    LET hits == {i \in 1..Len(spec) : MatchPattern(spec[i], comps, isDir)}
    IN /\ hits # {}
       /\ ~spec[CHOOSE i \in hits : \A j \in hits : j <= i].negated

----------------------------------------------------------------------------
(* ContextEngine.scan_files                                                *)

\* os.walk: the files and the sub-directories directly inside directory dir
\* (a sequence of components, <<>> for root_dir) of a tree given as the set
\* of its files.
FilesIn(t, dir) ==
    {f \in t : Len(f) = Len(dir) + 1 /\ SubSeq(f, 1, Len(dir)) = dir}

SubdirsIn(t, dir) ==
    {SubSeq(f, 1, Len(dir) + 1) :
        f \in {g \in t : Len(g) > Len(dir) + 1 /\ SubSeq(g, 1, Len(dir)) = dir}}

\* Line 78 without the test: every directory is descended into.
KeepDirNoPrune(spec, d) == TRUE

\* Line 78: a directory stays in dirs unless rel_root/d/ matches.
KeepDir(spec, d) == ~match_file(spec, d, TRUE)

\* Line 82: a file is appended unless its relative path matches.
KeepFile(spec, f) == ~match_file(spec, f, FALSE)

\* Lines 73-83: the paths appended while walking dir and what is below it.
RECURSIVE ScanWalk(_, _, _)
ScanWalk(t, spec, dir) ==
    {JoinSlash(f) : f \in {g \in FilesIn(t, dir) : KeepFile(spec, g)}}
        \cup UNION {ScanWalk(t, spec, d) :
                        d \in {e \in SubdirsIn(t, dir) : KeepDir(spec, e)}}

\* sorted(files) for distinct strings.
RECURSIVE SortedSeq(_)
SortedSeq(S) ==
    IF S = {} THEN <<>>
    ELSE LET m == CHOOSE x \in S : \A y \in S \ {x} : StrLess(x, y)
         IN <<m>> \o SortedSeq(S \ {m})

\* Lines 69-86.
scan_files(t, ignoreFile) ==
    SortedSeq(ScanWalk(t, get_ignore_spec(ignoreFile), <<>>))

\* The trees and ignore files the scan is explored over.
MaxIgnoreLines == 2

NameSrc == <<"s", "r", "c">>
NameBuild == <<"b", "u", "i", "l", "d">>
NameAPy == <<"a", ".", "p", "y">>
NameOutBin == <<"o", "u", "t", ".", "b", "i", "n">>
NameRunLog == <<"r", "u", "n", ".", "l", "o", "g">>
NameKeepLog == <<"k", "e", "e", "p", ".", "l", "o", "g">>
NameSrcPy == <<"s", "r", "c", ".", "p", "y">>
NameGitignore == <<".", "g", "i", "t", "i", "g", "n", "o", "r", "e">>

CandidateFiles ==
    { <<NameSrc, NameAPy>>,            \* src/a.py
      <<NameSrc, NameBuild, NameAPy>>, \* src/build/a.py
      <<NameBuild, NameOutBin>>,       \* build/out.bin
      <<NameBuild>>,                   \* a file named build
      <<NameRunLog>>,                  \* run.log
      <<NameKeepLog>>,                 \* keep.log
      <<NameSrcPy>> }                  \* src.py

\* A name is a file or a directory, never both.
IsTree(t) ==
    \A f \in t : \A g \in t :
        ~(Len(f) < Len(g) /\ SubSeq(g, 1, Len(f)) = f)

CandidateIgnoreLines ==
    { <<"*", ".", "l", "o", "g", "\n">>,                       \* *.log
      <<"!", "k", "e", "e", "p", ".", "l", "o", "g", "\n">>,   \* !keep.log
      <<"/", "s", "r", "c", "\n">>,                            \* /src
      <<"s", "r", "c", "/", "a", ".", "p", "y", "\n">>,        \* src/a.py
      <<"!", "b", "u", "i", "l", "d", "/", "o", "u", "t", ".", "b", "i", "n">>,
      <<"#", " ", "x", "\n">> }                                \* a comment

IgnoreFiles ==
    {NoFile} \cup
    {[exists |-> TRUE, lines |-> l] :
        l \in UNION {[1..n -> CandidateIgnoreLines] : n \in 0..MaxIgnoreLines}}

Trees == {u \in SUBSET CandidateFiles : IsTree(u)}

\* Lines 63-65: open(gitignore_path, 'r') and readlines() raise for an
\* ignore file that may not be read or does not decode.
IgnoreSpecRaises(ignoreFile, attrs) ==
    ignoreFile.exists /\ attrs[NameGitignore].kind # "text"

\* scan_files is entered on a root directory; .gitignore, when there is
\* one, is a file of the tree.
ScanInit ==
    /\ gitignore \in IgnoreFiles
    /\ \E t \in Trees :
          tree = IF gitignore.exists THEN t \cup {<<NameGitignore>>} ELSE t
    /\ file_lines = [p \in {JoinSlash(f) : f \in tree} |-> <<>>]
    /\ \E k \in IF gitignore.exists /\ gitignore.lines = <<>>
                 THEN FileKinds ELSE {"text"} :
          file_attrs = [p \in DOMAIN file_lines |->
                          IF p = NameGitignore
                          THEN [kind |-> k, newline |-> TRUE] ELSE TextFile]
    /\ all_files = <<>>
    /\ scanPc = "start"
    /\ llmCalls = <<>>
    /\ SelIdle /\ MtIdle /\ CtxIdle /\ ContentIdle /\ ChatIdle /\ TodoIdle
    /\ AgentIdle

\* Lines 69-86: scan_files(root_dir); the exception of get_ignore_spec
\* (line 70) leaves it.
ScanFiles ==
    /\ scanPc = "start"
    /\ IF IgnoreSpecRaises(gitignore, file_attrs)
       THEN /\ all_files' = all_files
            /\ scanPc' = "raised"
       ELSE /\ all_files' = scan_files(tree, gitignore)
            /\ scanPc' = "done"
    /\ UNCHANGED <<diskVars, contentVars, chatVars, todoVars, agentVars, selVars, mtVars, llmCalls, ctxVars>>

ScanNext == ScanFiles

SpecScan == ScanInit /\ [][ScanNext]_vars

\* The directories above a file: its proper non-empty prefixes.
Ancestors(f) == {SubSeq(f, 1, n) : n \in 1..(Len(f) - 1)}

\* C4: scan_files returns exactly the files that the ignore spec does not
\* match and that lie under no ignored directory, each once, as root-relative
\* file paths, in lexicographic order.
C4_ScanExactlyUnignoredSorted ==
    scanPc = "done" =>
        LET spec == get_ignore_spec(gitignore)
            visible == {f \in tree :
                          /\ ~match_file(spec, f, FALSE)
                          /\ \A d \in Ancestors(f) : ~match_file(spec, d, TRUE)}
        IN /\ Range(all_files) = {JoinSlash(f) : f \in visible}
           /\ Len(all_files) = Cardinality(visible)
           /\ IsSortedStrict(all_files)

\* C4 witness: a scan that dropped a file matched by a pattern, dropped a
\* file under an ignored directory and kept a file beside them.
C4_Witness ==
    /\ scanPc = "done"
    /\ <<NameRunLog>> \in tree
    /\ <<NameBuild, NameOutBin>> \in tree
    /\ gitignore.exists
    /\ all_files = <<NameGitignore, JoinSlash(<<NameSrc, NameAPy>>)>>

----------------------------------------------------------------------------
(* Python's re for the patterns get_search_match_counts builds             *)
(*                                                                         *)
(* The dialect modelled: literal characters, '.', the repeats '*' and      *)
(* '{n}', and '(' (which the queries drawn never close).  Lines are held   *)
(* without their final '\n', which none of these patterns can match.       *)

\* str.lower() on the characters the model uses (re.IGNORECASE).
Lower(c) ==
    CASE c = "A" -> "a" [] c = "D" -> "d" [] c = "S" -> "s" [] OTHER -> c

Digits == {"0", "1", "2", "3", "4", "5", "6", "7", "8", "9"}

\* \w : letters, digits and '_'.
IsWordChar(c) ==
    c \in Digits \cup {"_", "A", "D", "S", "a", "b", "c", "d", "e", "g", "i",
                       "k", "l", "n", "o", "p", "r", "s", "t", "u", "x", "y"}

\* sre_constants.MAXREPEAT (4294967295) as its decimal digits.
MaxRepeatDigits == <<"4", "2", "9", "4", "9", "6", "7", "2", "9", "5">>

\* A run of decimal digits without its leading zeros.
RECURSIVE StripZeros(_)
StripZeros(ds) ==
    IF ds # <<>> /\ Head(ds) = "0" THEN StripZeros(Tail(ds)) ELSE ds

\* int(lo) >= MAXREPEAT, decided on the digits.
RepeatTooLarge(ds) ==
    LET d == StripZeros(ds)
    IN \/ Len(d) > Len(MaxRepeatDigits)
       \/ Len(d) = Len(MaxRepeatDigits) /\ ~StrLess(d, MaxRepeatDigits)

\* int(lo) for a count below MAXREPEAT; a count of ten digits is beyond any
\* line the model holds and is kept as one billion.
RECURSIVE DigitsValue(_)
DigitsValue(ds) ==
    IF ds = <<>> THEN 0
    ELSE IF Len(StripZeros(ds)) > 9 THEN 1000000000
    ELSE 10 * DigitsValue(SubSeq(ds, 1, Len(ds) - 1)) + (Ord(ds[Len(ds)]) - Ord("0"))

\* The index of the first character of q at or after i that is no digit
\* (Len(q) + 1 when the digits run to the end).
RECURSIVE DigitsEnd(_, _)
DigitsEnd(q, i) ==
    IF i <= Len(q) /\ q[i] \in Digits THEN DigitsEnd(q, i + 1) ELSE i

ReItem(any, ch) == [any |-> any, ch |-> ch, min |-> 1, max |-> 1, rep |-> FALSE]

\* The last item of items with the repeat min..max put on it (max = -1 is
\* no upper limit), or the error sre_parse raises.
ReRepeat(items, min, max) ==
    IF items = <<>> THEN [kind |-> "re.error", items |-> <<>>]       \* nothing to repeat
    ELSE IF items[Len(items)].rep
         THEN [kind |-> "re.error", items |-> <<>>]                  \* multiple repeat
    ELSE [kind |-> "ok",
          items |-> [items EXCEPT ![Len(items)] =
                        [@ EXCEPT !.min = min, !.max = max, !.rep = TRUE]]]

\* sre_parse on q from position i, items being what is parsed so far.
RECURSIVE ReParse(_, _, _)
ReParse(q, i, items) ==
    IF i > Len(q) THEN [kind |-> "ok", items |-> items]
    ELSE LET c == q[i] IN
      IF c = "(" THEN [kind |-> "re.error", items |-> <<>>]   \* missing )
      ELSE IF c = "*"
        THEN LET r == ReRepeat(items, 0, -1)
             IN IF r.kind = "ok" THEN ReParse(q, i + 1, r.items) ELSE r
      ELSE IF c = "{"
        THEN LET j == DigitsEnd(q, i + 1)
                 lo == SubSeq(q, i + 1, j - 1)
             IN IF lo = <<>> \/ j > Len(q) \/ q[j] # "}"
                THEN ReParse(q, i + 1, Append(items, ReItem(FALSE, c)))
                ELSE IF RepeatTooLarge(lo)
                THEN [kind |-> "OverflowError", items |-> <<>>]
                ELSE LET r == ReRepeat(items, DigitsValue(lo), DigitsValue(lo))
                     IN IF r.kind = "ok" THEN ReParse(q, j + 1, r.items) ELSE r
      ELSE ReParse(q, i + 1, Append(items, ReItem(c = ".", c)))

\* re.compile(q, re.IGNORECASE): what it returns or raises.
re_compile(q) == ReParse(q, 1, <<>>)

\* items[k..] match line from position pos on.
RECURSIVE MatchItems(_, _, _, _)
MatchItems(items, k, line, pos) ==
    IF k > Len(items) THEN TRUE
    ELSE LET it == items[k]
             avail == Len(line) - pos + 1
             hi == IF it.max = -1 \/ it.max > avail THEN avail ELSE it.max
         IN \E n \in it.min..hi :
              /\ \A j \in 0..(n - 1) :
                    it.any \/ Lower(it.ch) = Lower(line[pos + j])
              /\ MatchItems(items, k + 1, line, pos + n)

\* q occurs in line at position i, letter case ignored.
OccursAtNoCase(line, q, i) ==
    /\ i >= 1
    /\ i + Len(q) - 1 <= Len(line)
    /\ \A j \in 1..Len(q) : Lower(line[i + j - 1]) = Lower(q[j])

\* \b between line[i] and line[i+1]: exactly one of the two is a word
\* character (what lies outside the line is none).
WordBoundary(line, i) ==
    LET left == i >= 1 /\ i <= Len(line) /\ IsWordChar(line[i])
        right == i + 1 >= 1 /\ i + 1 <= Len(line) /\ IsWordChar(line[i + 1])
    IN left # right

\* The pattern matches line from position i on, for the three kinds of
\* pattern lines 206-220 build.
PatternMatchAt(pat, line, i) ==
    CASE pat.kind = "regex" -> MatchItems(pat.items, 1, line, i)
      [] pat.kind = "literal" -> OccursAtNoCase(line, pat.text, i)
      [] pat.kind = "word" ->
            /\ OccursAtNoCase(line, pat.text, i)
            /\ WordBoundary(line, i - 1)
            /\ WordBoundary(line, i + Len(pat.text) - 1)

\* pattern.search(line): the pattern matches somewhere in the line.
PatternSearch(pat, line) ==
    \E i \in 1..(Len(line) + 1) : PatternMatchAt(pat, line, i)

----------------------------------------------------------------------------
(* ContextEngine.get_search_match_counts                                   *)

\* Line 203: regex_chars.
RegexChars == {".", "*", "+", "?", "[", "]", "{", "}", "(", ")", "^", "$",
               "|", "\\"}

\* Line 207.
has_regex(q) == \E i \in 1..Len(q) : q[i] \in RegexChars

\* Lines 211-217: try re.compile(q); `except re.error` falls back to the
\* escaped literal; any other exception leaves the function.
CompileRegex(q) ==
    LET r == re_compile(q)
    IN IF r.kind = "ok" THEN [kind |-> "regex", text |-> q, items |-> r.items]
       ELSE IF r.kind = "re.error"
            THEN [kind |-> "literal", text |-> q, items |-> <<>>]
       ELSE [kind |-> "raise", text |-> r.kind, items |-> <<>>]

\* Lines 206-220: the pattern built for one query.
CompileQuery(q) ==
    IF has_regex(q) THEN CompileRegex(q)
    ELSE [kind |-> "word", text |-> q, items |-> <<>>]     \* \b...\b

\* Line 231 with every hit counted: a line counts once for each position
\* the pattern matches at.
CountMatchingLinesAllHits(pat, lines) ==
    Cardinality(UNION {{<<k, i>> : i \in {j \in 1..(Len(lines[k]) + 1) :
                                            PatternMatchAt(pat, lines[k], j)}} :
                       k \in 1..Len(lines)})

\* Line 231: the number of lines of a file the pattern is found in.
CountMatchingLines(pat, lines) ==
    Cardinality({k \in 1..Len(lines) : PatternSearch(pat, lines[k])})

\* Lines 228-233: file_matches, the counts of the queries found in a file;
\* a query whose count is 0 gets no key.
FileMatches(qs, lines) ==
    LET found == {q \in Range(qs) : CountMatchingLines(CompileQuery(q), lines) > 0}
    IN IF found = {} THEN <<>>
       ELSE [q \in found |-> CountMatchingLines(CompileQuery(q), lines)]

\* Lines 193-241: the report, or the exception that leaves the function.
\* The report maps a path to its file_matches; a file without a match gets
\* no key (lines 235-236), a file that cannot be opened is skipped (lines
\* 237-238).
get_search_match_counts(files, qs, disk) ==
    LET patterns == [i \in 1..Len(qs) |-> CompileQuery(qs[i])]
        failed == {i \in 1..Len(qs) : patterns[i].kind = "raise"}
        matched == {f \in Range(files) \cap DOMAIN disk :
                        FileMatches(qs, disk[f]) # <<>>}
    IN IF failed # {}
       THEN [raised |-> patterns[CHOOSE i \in failed :
                                    \A j \in failed : i <= j].text,
             results |-> <<>>]
       ELSE [raised |-> "none",
             results |-> IF matched = {} THEN <<>>
                         ELSE [f \in matched |-> FileMatches(qs, disk[f])]]

\* The queries and file contents the scoring is explored over.
MaxFileLines == 2

QWord == <<"a">>                        \* a
QDecorator == <<"@", "a">>              \* @a
QStar == <<"a", "*">>                   \* a*    (a regex)
QOpenParen == <<"(">>                   \* (     (re.error)
QDoubleStar == <<"a", "*", "*">>        \* a**   (re.error)
QHugeRepeat == <<"a", "{", "4", "2", "9", "4", "9", "6", "7", "2", "9", "6", "}">>

\* Queries as generate_search_queries returns them: stripped, not empty.
QueryPool == {QWord, QDecorator, QStar, QOpenParen, QDoubleStar, QHugeRepeat}

\* One query, or two.
QueryLists ==
    {<<q>> : q \in QueryPool} \cup {<<q1, q2>> : q1 \in QueryPool, q2 \in QueryPool}

LinePool == { <<>>, <<"a">>, <<"A">>, <<"A", "a">>, <<"@", "a">>,
              <<"a", "@", "a">>, <<"(">>, <<"a", "*", "*">> }

MatchTree == {<<NameAPy>>, <<NameSrcPy>>}

\* The contents of the two files: at most MaxFileLines lines in all.
MatchDisks ==
    UNION {
      UNION {
        {[p \in {NameAPy, NameSrcPy} |-> IF p = NameAPy THEN c1 ELSE c2] :
            c1 \in [1..n1 -> LinePool], c2 \in [1..n2 -> LinePool]}
        : n2 \in 0..(MaxFileLines - n1)}
      : n1 \in 0..MaxFileLines}

\* get_search_match_counts is entered with the scanned list and the queries.
MatchInit ==
    /\ tree = MatchTree
    /\ gitignore = NoFile
    /\ file_lines \in MatchDisks
    /\ file_attrs = [p \in DOMAIN file_lines |-> TextFile]
    /\ all_files = scan_files(tree, gitignore)
    /\ scanPc = "done"
    /\ queries \in QueryLists
    /\ results = <<>>
    /\ mtRaised = "none"
    /\ mtPc = "start"
    /\ llmCalls = <<>>
    /\ SelIdle /\ CtxIdle /\ ContentIdle /\ ChatIdle /\ TodoIdle
    /\ AgentIdle

\* Lines 223-226: the files open() succeeds on; errors='ignore' lets a
\* binary file read as the lines that decode.
OpenableDisk(disk, attrs) ==
    LET ok == {p \in DOMAIN disk : attrs[p].kind # "denied"}
    IN IF ok = {} THEN <<>> ELSE [p \in ok |-> disk[p]]

\* Lines 193-241: get_search_match_counts(root_dir, all_files, queries).
GetSearchMatchCounts ==
    /\ mtPc = "start"
    /\ LET r == get_search_match_counts(all_files, queries,
                                        OpenableDisk(file_lines, file_attrs))
       IN /\ results' = r.results
          /\ mtRaised' = r.raised
    /\ mtPc' = "done"
    /\ UNCHANGED <<queries, diskVars, contentVars, chatVars, todoVars, agentVars, scanVars, selVars, llmCalls, ctxVars>>

MatchNext == GetSearchMatchCounts

SpecMatch == MatchInit /\ [][MatchNext]_vars

\* The count the report holds for file f and query q (0: no entry).
ReportedCount(f, q) ==
    IF f \in DOMAIN results /\ q \in DOMAIN results[f] THEN results[f][q] ELSE 0

\* q occurs in line as a whole word: an occurrence with no word character
\* directly before or after it.
WholeWordOccurs(q, line) ==
    \E i \in 1..Len(line) :
        /\ OccursAtNoCase(line, q, i)
        /\ (i = 1 \/ ~IsWordChar(line[i - 1]))
        /\ (i + Len(q) - 1 = Len(line) \/ ~IsWordChar(line[i + Len(q)]))

\* C9: for a query without regex metacharacters the count of a file is the
\* number of its lines in which the query occurs as a whole word.
C9_PlainQueryCountsWholeWords ==
    (mtPc = "done" /\ mtRaised = "none") =>
        \A q \in {x \in Range(queries) : ~has_regex(x)} :
            \A f \in Range(all_files) :
                ReportedCount(f, q) =
                    Cardinality({k \in 1..Len(file_lines[f]) :
                                    WholeWordOccurs(q, file_lines[f][k])})

\* C10: a query with a metacharacter that is no valid regular expression
\* does not make the scoring raise, and is counted as case-insensitive
\* literal text.
C10_InvalidRegexFallsBackToLiteral ==
    mtPc = "done" =>
        \A q \in {x \in Range(queries) :
                    has_regex(x) /\ re_compile(x).kind # "ok"} :
            /\ mtRaised = "none"
            /\ \A f \in Range(all_files) :
                ReportedCount(f, q) =
                    Cardinality({k \in 1..Len(file_lines[f]) :
                        \E i \in 1..Len(file_lines[f][k]) :
                            OccursAtNoCase(file_lines[f][k], q, i)})

\* The lines of file f on which the matcher built for q finds a match.
MatchingLines(f, q) ==
    {k \in 1..Len(file_lines[f]) :
        PatternSearch(CompileQuery(q), file_lines[f][k])}

\* C11: the report holds report[f][q] = n exactly when n > 0 is the number
\* of lines of f on which q's matcher finds a match (a line with several
\* hits counts once); a query without a matching line has no entry under f
\* and a file without a matching query has no entry at all.
C11_ReportHoldsPositiveLineCounts ==
    (mtPc = "done" /\ mtRaised = "none") =>
        /\ DOMAIN results \subseteq Range(all_files)
        /\ \A f \in DOMAIN results :
              /\ DOMAIN results[f] # {}
              /\ DOMAIN results[f] \subseteq Range(queries)
        /\ \A f \in Range(all_files) :
              \A q \in Range(queries) :
                 LET n == Cardinality(MatchingLines(f, q))
                 IN IF n > 0
                    THEN /\ f \in DOMAIN results
                         /\ q \in DOMAIN results[f]
                         /\ results[f][q] = n
                    ELSE ~(f \in DOMAIN results /\ q \in DOMAIN results[f])

\* C11 witness: a report in which a line with two hits is counted once, a
\* query is missing under a file that has an entry, and a file has no entry.
C11_Witness ==
    /\ mtPc = "done" /\ mtRaised = "none"
    /\ \E f \in DOMAIN results :
          /\ \E q \in DOMAIN results[f] :
                /\ results[f][q] = 1
                /\ \E k \in 1..Len(file_lines[f]) :
                      Cardinality({i \in 1..Len(file_lines[f][k]) :
                          PatternMatchAt(CompileQuery(q), file_lines[f][k], i)}) > 1
          /\ \E q \in Range(queries) : q \notin DOMAIN results[f]
    /\ \E f \in Range(all_files) : f \notin DOMAIN results

----------------------------------------------------------------------------
(* ContextEngine.generate_search_queries                                   *)

\* Line 191: queries[:10].
MaxQueriesReturned == 10

NoneMarker == <<"(", "n", "o", "n", "e", ")">>

LowerStr(t) == [i \in 1..Len(t) |-> Lower(t[i])]

\* Lines 185-188: the queries of the first n lines of the reply.
RECURSIVE ParseQueryLines(_, _)
ParseQueryLines(lines, n) ==
    IF n = 0 THEN <<>>
    ELSE LET l == Strip(LStrip(Strip(lines[n], Whitespace), {"*", "-", " "}),
                        Whitespace)
             before == ParseQueryLines(lines, n - 1)
         IN IF l # <<>> /\ LowerStr(l) # NoneMarker
            THEN Append(before, l) ELSE before

\* Lines 183-191: the queries returned for a reply.
generate_search_queries(reply) ==
    LET all == ParseQueryLines(reply, Len(reply))
    IN SubSeq(all, 1, IF Len(all) < MaxQueriesReturned THEN Len(all)
                      ELSE MaxQueriesReturned)

----------------------------------------------------------------------------
(* ContextEngine.get_file_content and add_line_numbers                     *)

\* Line 103: max_lines = 5000;  line 88: interval = 50.
DefaultMaxLines == 5000
DefaultInterval == 50

\* The decimal digits of a natural number (f"{n}").
RECURSIVE NatStr(_)
NatStr(n) ==
    IF n < 10 THEN <<CHOOSE d \in Digits : Ord(d) - Ord("0") = n>>
    ELSE Append(NatStr(n \div 10), CHOOSE d \in Digits : Ord(d) - Ord("0") = n % 10)

\* Line 96: "[Line N]".
LineMarker(n) == <<"[", "L", "i", "n", "e", " ">> \o NatStr(n) \o <<"]">>

\* Line 113: "... [TRUNCATED: k more lines] ...".
TruncationFooter(k) ==
    <<".", ".", ".", " ", "[", "T", "R", "U", "N", "C", "A", "T", "E", "D", ":", " ">>
        \o NatStr(k)
        \o <<" ", "m", "o", "r", "e", " ", "l", "i", "n", "e", "s", "]", " ",
             ".", ".", ".">>

\* Lines 88-99 on content given as content.split('\n'): the pieces 1..n with
\* a marker before every piece whose number is a multiple of interval.
RECURSIVE add_line_numbers(_, _, _)
add_line_numbers(pieces, n, interval) ==
    IF n = 0 THEN <<>>
    ELSE add_line_numbers(pieces, n - 1, interval)
            \o (IF n % interval = 0 THEN <<LineMarker(n)>> ELSE <<>>)
            \o <<pieces[n]>>

\* Lines 110-121 for a file that opened and decoded: the returned content,
\* as content.split('\n').  readlines() keeps the '\n' of every line, so
\* the joined text ends in '\n' (and its split in an empty piece) when the
\* last line does; the lines kept by a truncation all end in '\n'.
ReadTextFooterTotal(lines, newline, maxLines) ==
    LET content == IF Len(lines) > maxLines
                   THEN SubSeq(lines, 1, maxLines)
                            \o <<<<>>, <<>>, TruncationFooter(Len(lines))>>
                   ELSE IF newline \/ lines = <<>> THEN lines \o <<<<>>>>
                   ELSE lines
    IN add_line_numbers(content, Len(content), DefaultInterval)

ReadText(lines, newline, maxLines) ==
    LET content == IF Len(lines) > maxLines
                   THEN SubSeq(lines, 1, maxLines)
                            \o <<<<>>, <<>>, TruncationFooter(Len(lines) - maxLines)>>
                   ELSE IF newline \/ lines = <<>> THEN lines \o <<<<>>>>
                   ELSE lines
    IN add_line_numbers(content, Len(content), DefaultInterval)

\* Line 124: "[Binary file - skipped]".
BinarySentinel ==
    << <<"[", "B", "i", "n", "a", "r", "y", " ", "f", "i", "l", "e", " ", "-",
         " ", "s", "k", "i", "p", "p", "e", "d", "]">> >>

\* Line 127: "[Error reading file: ...]", the notice returned for a file
\* that cannot be opened (the text of the exception is left out).
ErrorReadingFile ==
    << <<"[", "E", "r", "r", "o", "r", " ", "r", "e", "a", "d", "i", "n", "g",
         " ", "f", "i", "l", "e", ":", " ", "]">> >>

\* Lines 103-127: get_file_content(root_dir, rel_path, max_lines).  open()
\* fails for a missing file and for one that may not be read (line 125),
\* readlines() fails with UnicodeDecodeError for a binary one (line 122).
get_file_content(path, maxLines, disk, attrs) ==
    IF path \notin DOMAIN disk THEN ErrorReadingFile
    ELSE IF attrs[path].kind = "denied" THEN ErrorReadingFile
    ELSE IF attrs[path].kind = "binary" THEN BinarySentinel
    ELSE ReadText(disk[path], attrs[path].newline, maxLines)

\* Lines 280-283 with the files that cannot be read left out of the packet.
AssembleContentsSkipUnreadable(files, disk, attrs) ==
    LET ok == SelectSeq(files, LAMBDA f :
                    f \in DOMAIN disk /\ attrs[f].kind = "text")
    IN [i \in 1..Len(ok) |->
            [path |-> ok[i],
             content |-> get_file_content(ok[i], DefaultMaxLines, disk, attrs)]]

\* Lines 280-283: the content packet of the selected files, in their order.
AssembleContents(files, disk, attrs) ==
    [i \in 1..Len(files) |->
        [path |-> files[i],
         content |-> get_file_content(files[i], DefaultMaxLines, disk, attrs)]]

\* The files get_file_content is explored over: line k of a file holds the
\* digits of k.
MaxContentLines == 51

NumberedLines(n) == [k \in 1..n |-> NatStr(k)]

\* The line caps explored: small ones, caps next to the interval, the
\* default.
LineCaps == {0, 1, 2, 48, 49, 50, DefaultMaxLines}

MissingFile == <<"g", "o", "n", "e">>

\* get_file_content is entered for a file of the directory, or for a path
\* that is not there.
ContentInit ==
    /\ tree = {<<NameAPy>>}
    /\ gitignore = NoFile
    /\ \E n \in 0..MaxContentLines : file_lines = [p \in {NameAPy} |-> NumberedLines(n)]
    /\ \E k \in FileKinds, nl \in BOOLEAN :
          file_attrs = [p \in {NameAPy} |-> [kind |-> k, newline |-> nl]]
    /\ rel_path \in {NameAPy, MissingFile}
    /\ max_lines \in LineCaps
    /\ file_content = <<>>
    /\ gfcPc = "start"
    /\ llmCalls = <<>>
    /\ SelIdle /\ ScanIdle /\ MtIdle /\ CtxIdle /\ ChatIdle /\ TodoIdle
    /\ AgentIdle

\* Lines 103-127: get_file_content(root_dir, rel_path, max_lines).
GetFileContent ==
    /\ gfcPc = "start"
    /\ file_content' = get_file_content(rel_path, max_lines, file_lines, file_attrs)
    /\ gfcPc' = "done"
    /\ UNCHANGED <<rel_path, max_lines>>
    /\ UNCHANGED <<diskVars, selVars, scanVars, mtVars, llmCalls, ctxVars,
                   chatVars, todoVars, agentVars>>

ContentNext == GetFileContent

SpecContent == ContentInit /\ [][ContentNext]_vars

\* get_file_content returned for a file that opened and decoded.
RenderedText ==
    /\ gfcPc = "done"
    /\ rel_path \in DOMAIN file_lines
    /\ file_attrs[rel_path].kind = "text"

IsMarker(piece) == \E n \in 1..(MaxContentLines + 5) : piece = LineMarker(n)

IsFooter(piece) == \E k \in 0..MaxContentLines : piece = TruncationFooter(k)

\* The rendered text with its marker lines removed.
WithoutMarkers == SelectSeq(file_content, LAMBDA p : ~IsMarker(p))

\* The number of lines of the file the rendered text shows.
ShownLines ==
    IF Len(file_lines[rel_path]) > max_lines THEN max_lines
    ELSE Len(file_lines[rel_path])

\* The content before the markers are added (lines 110-115), as its pieces.
UnmarkedContent ==
    LET lines == file_lines[rel_path]
    IN IF Len(lines) > max_lines
       THEN SubSeq(lines, 1, max_lines)
                \o <<<<>>, <<>>, TruncationFooter(Len(lines) - max_lines)>>
       ELSE IF file_attrs[rel_path].newline \/ lines = <<>> THEN lines \o <<<<>>>>
       ELSE lines

\* C12: the rendered text of a file (here: one within the line cap) holds
\* a marker line "[Line N]" exactly for each multiple N of 50 that is a
\* line number of the file, the marker stands immediately before the
\* file's Nth line, and removing the markers gives the content back.
C12_MarkersExactlyAtIntervalLines ==
    (RenderedText /\ Len(file_lines[rel_path]) <= max_lines) =>
        /\ \A n \in 1..(MaxContentLines + 5) :
              (\E i \in 1..Len(file_content) : file_content[i] = LineMarker(n))
                 <=> (n % DefaultInterval = 0 /\ n <= ShownLines)
        /\ \A i \in 1..Len(file_content) :
              \A n \in 1..ShownLines :
                 file_content[i] = LineMarker(n) =>
                    /\ i < Len(file_content)
                    /\ file_content[i + 1] = file_lines[rel_path][n]
        /\ WithoutMarkers = UnmarkedContent

\* C13: a file of L lines is rendered with all its lines and no footer
\* when L <= max_lines, and with exactly its first max_lines lines and a
\* footer reporting L - max_lines omitted lines when L > max_lines.
C13_TruncationAtMaxLines ==
    RenderedText =>
        LET lines == file_lines[rel_path]
            L == Len(lines)
            body == WithoutMarkers
        IN IF L <= max_lines
           THEN /\ Len(body) \in {L, L + 1}
                /\ SubSeq(body, 1, L) = lines
                /\ Len(body) = L + 1 => body[L + 1] = <<>>
                /\ \A i \in 1..Len(file_content) : ~IsFooter(file_content[i])
           ELSE /\ Len(body) = max_lines + 3
                /\ SubSeq(body, 1, max_lines) = SubSeq(lines, 1, max_lines)
                /\ body[max_lines + 1] = <<>>
                /\ body[max_lines + 2] = <<>>
                /\ body[max_lines + 3] = TruncationFooter(L - max_lines)
                /\ \A i \in 1..(Len(file_content) - 1) : ~IsFooter(file_content[i])

\* C13 witness: a file longer than a cap of at least 50 lines has been
\* rendered: its 50th line is kept, under its marker, and a footer follows.
C13_Witness ==
    /\ RenderedText
    /\ max_lines >= DefaultInterval
    /\ Len(file_lines[rel_path]) > max_lines
    /\ \E i \in 1..(Len(file_content) - 1) :
          /\ file_content[i] = LineMarker(DefaultInterval)
          /\ file_content[i + 1] = file_lines[rel_path][DefaultInterval]
    /\ IsFooter(file_content[Len(file_content)])

----------------------------------------------------------------------------
(* mcp_server.context_engine and ContextEngine.get_codebase_context        *)

\* Line 276: max_files = 50.
DefaultMaxFiles == 50

\* An answer text is held as the sequence of its segments: a run of prose,
\* or one reference block (prompts.py lines 111-114)
\*     <code> <path>p</path> <lines>start,end</lines> </code>
\* "excerpt" and "notice" are the segments a citation resolver would put in
\* the place of a reference block.
Prose(t) == [kind |-> "prose", text |-> t, path |-> <<>>, start |-> 0, end |-> 0]
CodeRef(p, a, b) == [kind |-> "ref", text |-> "", path |-> p, start |-> a, end |-> b]
Excerpt(p, a, b) == [kind |-> "excerpt", text |-> "", path |-> p, start |-> a, end |-> b]
Notice(p, a, b) == [kind |-> "notice", text |-> "", path |-> p, start |-> a, end |-> b]

\* Line 304: the text returned in place of an empty answer.
NoResponseGenerated == <<Prose("No response generated.")>>

\* Line 304 with every reference block resolved against the files on disk:
\* clamped to the file and replaced by an excerpt, or by a notice.
ReturnedTextResolved(content) ==
    IF content = <<>> THEN NoResponseGenerated
    ELSE [i \in 1..Len(content) |->
            LET c == content[i]
                total == IF c.path \in DOMAIN file_lines
                         THEN Len(file_lines[c.path]) ELSE 0
                lo == IF c.start < 1 THEN 1 ELSE c.start
                hi == IF c.end > total THEN total ELSE c.end
            IN IF c.kind # "ref" THEN c
               ELSE IF c.path \notin DOMAIN file_lines \/ lo > total
                    THEN Notice(c.path, c.start, c.end)
               ELSE Excerpt(c.path, lo, hi)]

\* Line 304 with the line ranges of the reference blocks clamped to the
\* cited files.
ReturnedTextClamped(content) ==
    IF content = <<>> THEN NoResponseGenerated
    ELSE [i \in 1..Len(content) |->
            LET c == content[i]
                total == IF c.path \in DOMAIN file_lines
                         THEN Len(file_lines[c.path]) ELSE 0
            IN IF c.kind # "ref" THEN c
               ELSE CodeRef(c.path, IF c.start < 1 THEN 1 ELSE c.start,
                            IF c.end > total THEN total ELSE c.end)]

\* Line 304 without the fallback for an empty answer.
ReturnedTextNoFallback(content) == content

\* Lines 304-307: result = response.choices[0].message.content
\*                         or "No response generated."
ReturnedText(content) ==
    IF content = <<>> THEN NoResponseGenerated ELSE content

\* mcp_server.py line 62 and line 69: the two error strings of the tool;
\* Raised: an exception leaves the tool instead of a string.
PathError == [kind |-> "path_error", parts |-> <<>>]
AnalysisError == [kind |-> "error_during_analysis", parts |-> <<>>]
Raised == [kind |-> "raised", parts |-> <<>>]

\* mcp_server.py lines 64-69 without the except clause.
ToolExceptReraise(stage) == Raised

\* mcp_server.py lines 67-69: an exception of get_codebase_context is
\* returned as "Error during analysis:" with its trace.
ToolExcept(stage) == AnalysisError

\* The queries: root directories, replies to the query-generation call and
\* answers of the analysis call that are explored.
QueryTrees == {MatchTree, {<<NameAPy>>}, {}}

QueryDisk(t) ==
    [p \in {JoinSlash(f) : f \in t} |->
        IF p = NameAPy THEN <<<<"a">>, <<"A", "a">>>>
        ELSE IF p = NameGitignore THEN <<>>
        ELSE <<<<"@", "a">>>>]

\* An ignore file that does not decode as text.
UndecodableIgnore == [exists |-> TRUE, lines |-> <<>>]

SearchQueryReplies ==
    { <<NoneMarker>>,                            \* (none)
      <<EmptyLine>>,                             \* ""
      <<QWord, AsBullet(QDecorator)>>,           \* a / - @a
      <<QOpenParen>>,                            \* (
      <<QHugeRepeat>> }                          \* a{4294967296}

MissingPath == <<"g", "o", "n", "e", ".", "p", "y">>

Answers ==
    { <<>>,
      <<Prose("Direct answer.")>>,
      <<Prose("Direct answer."), CodeRef(NameAPy, 1, 300), Prose("Notes.")>>,
      <<CodeRef(MissingPath, 1, 5), CodeRef(NameAPy, 0, 1)>>,
      <<CodeRef(NameAPy, 5, 9), Prose("Notes.")>> }

\* A query arrives at the tool.  src.py reads as text, is binary or may
\* not be read; the ignore file, when there is one, does not decode.
QueryInit ==
    /\ gitignore \in {NoFile, UndecodableIgnore}
    /\ \E t \in QueryTrees :
          tree = IF gitignore.exists THEN t \cup {<<NameGitignore>>} ELSE t
    /\ file_lines = QueryDisk(tree)
    /\ \E k \in FileKinds :
          file_attrs = [p \in DOMAIN file_lines |->
                          IF p = NameSrcPy THEN [kind |-> k, newline |-> TRUE]
                          ELSE IF p = NameGitignore
                               THEN [kind |-> "binary", newline |-> TRUE]
                          ELSE TextFile]
    /\ api_key \in BOOLEAN
    /\ path_exists \in BOOLEAN
    /\ exc = "none"
    /\ file_contents_parts = <<>>
    /\ answer = <<>>
    /\ result = NoResult
    /\ ctxPc = "start"
    /\ llmCalls = <<>>
    /\ SelIdle /\ ScanIdle /\ MtIdle /\ ContentIdle /\ ChatIdle /\ TodoIdle
    /\ AgentIdle

\* mcp_server.py lines 58-65: the engine is constructed (its constructor
\* raises ValueError without an API key, context_engine.py lines 30-34, and
\* no try encloses the call), the path is tested, then get_codebase_context
\* is entered and calls scan_files (line 259).
ContextEngineTool ==
    /\ ctxPc = "start"
    /\ \/ /\ ~api_key
          /\ result' = Raised
          /\ ctxPc' = "done"
          /\ UNCHANGED scanVars
       \/ /\ api_key
          /\ ~path_exists
          /\ result' = PathError
          /\ ctxPc' = "done"
          /\ UNCHANGED scanVars
       \/ /\ api_key
          /\ path_exists
          /\ result' = result
          /\ ctxPc' = "scan"
          /\ scanPc' = "start"
          /\ UNCHANGED all_files
    /\ UNCHANGED <<api_key, path_exists, exc, file_contents_parts, answer>>
    /\ UNCHANGED <<diskVars, contentVars, chatVars, todoVars, agentVars, selVars, mtVars, llmCalls>>

\* The scan raised (get_ignore_spec, line 70): the query ends at the
\* tool's except clause.
ScanFailed ==
    /\ ctxPc = "scan"
    /\ scanPc = "raised"
    /\ exc' = "scan"
    /\ result' = ToolExcept(exc')
    /\ ctxPc' = "done"
    /\ UNCHANGED <<api_key, path_exists, file_contents_parts, answer>>
    /\ UNCHANGED <<diskVars, contentVars, chatVars, todoVars, agentVars, scanVars, selVars, mtVars, llmCalls>>

\* Lines 263-264, 170-191: the query-generation call; its reply is parsed
\* and get_search_match_counts is entered, or the call raises.
GenerateSearchQueries ==
    /\ ctxPc = "scan"
    /\ scanPc = "done"
    /\ llmCalls' = LLMCall(llmCalls, "queries")
    /\ \/ /\ \E reply \in SearchQueryReplies :
                queries' = generate_search_queries(reply)
          /\ mtPc' = "start"
          /\ ctxPc' = "score"
          /\ UNCHANGED <<result, exc>>
       \/ /\ exc' = "queries"
          /\ result' = ToolExcept(exc')
          /\ ctxPc' = "done"
          /\ UNCHANGED <<queries, mtPc>>
    /\ UNCHANGED <<results, mtRaised>>
    /\ UNCHANGED <<api_key, path_exists, file_contents_parts, answer>>
    /\ UNCHANGED <<diskVars, contentVars, chatVars, todoVars, agentVars, scanVars, selVars>>

\* Lines 266-276, 129-137: the scored list is handed to
\* select_relevant_files; an exception of the scoring ends the query at the
\* tool's except clause (mcp_server.py lines 67-69).
BeginSelection ==
    /\ ctxPc = "score"
    /\ mtPc = "done"
    /\ \/ /\ mtRaised = "none"
          /\ validation_file_list' = all_files
          /\ max_files' = DefaultMaxFiles
          /\ selPc' = "start"
          /\ ctxPc' = "select"
          /\ UNCHANGED <<result, exc>>
       \/ /\ mtRaised # "none"
          /\ exc' = "scoring"
          /\ result' = ToolExcept(exc')
          /\ ctxPc' = "done"
          /\ UNCHANGED <<validation_file_list, max_files, selPc>>
    /\ UNCHANGED <<response_text, selected_files, lineIdx>>
    /\ UNCHANGED <<api_key, path_exists, file_contents_parts, answer>>
    /\ UNCHANGED <<diskVars, contentVars, chatVars, todoVars, agentVars, scanVars, mtVars, llmCalls>>

\* The selection call raised: the query ends at the tool's except clause.
SelectionFailed ==
    /\ ctxPc = "select"
    /\ selPc = "raised"
    /\ exc' = "selection"
    /\ result' = ToolExcept(exc')
    /\ ctxPc' = "done"
    /\ UNCHANGED <<api_key, path_exists, file_contents_parts, answer>>
    /\ UNCHANGED <<diskVars, contentVars, chatVars, todoVars, agentVars, scanVars, selVars, mtVars, llmCalls>>

\* The directory changes under the query: a file that was scanned and
\* selected is removed before line 282 reads it.
FileDeleted ==
    /\ ctxPc = "select"
    /\ selPc = "done"
    /\ NameSrcPy \in DOMAIN file_lines
    /\ NameSrcPy \in Range(selected_files)
    /\ tree' = tree \ {<<NameSrcPy>>}
    /\ LET rest == DOMAIN file_lines \ {NameSrcPy}
       IN /\ file_lines' = IF rest = {} THEN <<>>
                           ELSE [p \in rest |-> file_lines[p]]
          /\ file_attrs' = IF rest = {} THEN <<>>
                           ELSE [p \in rest |-> file_attrs[p]]
    /\ UNCHANGED gitignore
    /\ UNCHANGED <<contentVars, chatVars, todoVars, agentVars, scanVars, selVars, mtVars, llmCalls, ctxVars>>

\* Lines 278-307: the selected files are read, the analysis call is made and
\* its answer is returned; or the call raises.
AssembleAndAnalyze ==
    /\ ctxPc = "select"
    /\ selPc = "done"
    /\ file_contents_parts' = AssembleContents(selected_files, file_lines,
                                             file_attrs)
    /\ llmCalls' = LLMCall(llmCalls, "analysis")
    /\ \/ /\ answer' \in Answers
          /\ result' = [kind |-> "answer", parts |-> ReturnedText(answer')]
          /\ exc' = exc
       \/ /\ answer' = answer
          /\ exc' = "analysis"
          /\ result' = ToolExcept(exc')
    /\ ctxPc' = "done"
    /\ UNCHANGED <<api_key, path_exists>>
    /\ UNCHANGED <<diskVars, contentVars, chatVars, todoVars, agentVars, scanVars, selVars, mtVars>>

Next ==
    \/ ContextEngineTool
    \/ ScanFiles
    \/ ScanFailed
    \/ GenerateSearchQueries
    \/ GetSearchMatchCounts
    \/ BeginSelection
    \/ SelectCallLLM
    \/ SelectParseLine
    \/ SelectionFailed
    \/ FileDeleted
    \/ AssembleAndAnalyze

Spec == QueryInit /\ [][Next]_vars

\* The query ran to completion: the tool returned the analysis.
Completed == ctxPc = "done" /\ result.kind = "answer"

RefPositions == {i \in 1..Len(answer) : answer[i].kind = "ref"}

C7_NoReferencesUnchanged ==
    (Completed /\ RefPositions = {}) => result.parts = answer

\* C7 (amended): a non-empty answer without reference blocks is returned
\* unchanged; an empty answer is returned as "No response generated.".
C7_NoReferencesUnchangedUnlessEmpty ==
    (Completed /\ RefPositions = {}) =>
        result.parts = IF answer = <<>> THEN NoResponseGenerated ELSE answer

\* C7 witness: a completed query whose answer is prose only.
C7_Witness ==
    /\ Completed
    /\ answer # <<>>
    /\ RefPositions = {}

Assembled == ctxPc = "done" /\ selPc = "done"

\* A selected file that get_file_content cannot read as text.
Unreadable(p) == p \notin DOMAIN file_lines \/ file_attrs[p].kind # "text"

\* C14: assembling the content packet never fails because of one file: a
\* selected file that is binary, missing or unreadable is entered with the
\* fixed sentinel or an error notice, no exception leaves the assembly, and
\* every other selected file is read and entered, in selection order.
C14_AssemblySurvivesUnreadableFiles ==
    Assembled =>
        /\ exc \in {"none", "analysis"}
        /\ Len(file_contents_parts) = Len(selected_files)
        /\ \A i \in 1..Len(selected_files) :
              LET p == selected_files[i]
                  part == file_contents_parts[i]
              IN /\ part.path = p
                 /\ IF Unreadable(p)
                    THEN part.content \in {BinarySentinel, ErrorReadingFile}
                    ELSE part.content =
                            ReadText(file_lines[p], file_attrs[p].newline,
                                     DefaultMaxLines)

\* C14 witness: two files were selected, the first cannot be read (it is
\* binary, denied or gone), the second is read after it.
C14_Witness ==
    /\ Assembled
    /\ Len(selected_files) = 2
    /\ Unreadable(selected_files[1])
    /\ ~Unreadable(selected_files[2])
    /\ Len(file_contents_parts) = 2
    /\ file_contents_parts[2].content \notin {BinarySentinel, ErrorReadingFile}

\* The selection reply holds no line that names a file of the scanned list.
NoValidCandidate ==
    /\ response_text # <<>>
    /\ \A k \in 1..Len(response_text) :
          ~IsValidCandidate(CleanLine(response_text[k]), validation_file_list)

\* C15: a selection reply without a valid candidate makes
\* select_relevant_files return the empty list without raising, and the
\* query goes on through the assembly (an empty content packet) and the
\* analysis call, whose answer it returns.
C15_EmptySelectionIsNotFatal ==
    /\ (selPc = "raised" => response_text = <<>>)
    /\ (NoValidCandidate /\ selPc = "done") => selected_files = <<>>
    /\ (NoValidCandidate /\ ctxPc = "done") =>
          /\ selPc = "done"
          /\ file_contents_parts = <<>>
          /\ llmCalls = <<"queries", "selection", "analysis">>
          /\ exc \in {"none", "analysis"}
          /\ exc = "none" => result.kind = "answer"

\* C15 witness: a query whose selection reply named only a file that is not
\* in the scanned list returned the answer of the analysis call.
C15_Witness ==
    /\ ctxPc = "done"
    /\ response_text = <<PathHallucinated>>
    /\ validation_file_list # <<>>
    /\ selected_files = <<>>
    /\ result.kind = "answer"

\* The stages of get_codebase_context an exception can come from.
Stages == {"scan", "queries", "scoring", "selection", "analysis"}

\* C16: an exception raised by a stage of the pipeline is caught at the
\* tool and returned as the error string; the tool does not raise it.
C16_StageExceptionsCaughtAtBoundary ==
    /\ exc \in Stages \cup {"none"}
    /\ exc \in Stages => (ctxPc = "done" /\ result = AnalysisError)
    /\ (scanPc = "raised" /\ ctxPc = "done") => exc = "scan"
    /\ (mtRaised # "none" /\ ctxPc = "done") => exc = "scoring"
    /\ (selPc = "raised" /\ ctxPc = "done") => exc = "selection"

\* C16 witness: the scoring raised (a query with a repeat count re.compile
\* rejects with OverflowError) and the query has ended.
C16_Witness ==
    /\ ctxPc = "done"
    /\ exc = "scoring"
    /\ mtRaised # "none"

\* C17: for a root path that does not exist the tool returns the path
\* error message and no stage runs: no scan, no scoring, no file read and
\* no reasoning-step call.
C17_MissingRootReturnsPathError ==
    (ctxPc = "done" /\ ~path_exists) =>
        /\ result = PathError
        /\ scanPc = "idle"
        /\ mtPc = "idle"
        /\ selPc = "idle"
        /\ llmCalls = <<>>
        /\ file_contents_parts = <<>>

\* C18: building the ignore spec never fails: without an ignore file the
\* built-in patterns alone are used, with one (also a binary or malformed
\* one) the scan proceeds with the built-in patterns plus its lines.
C18_IgnoreSpecNeverFails ==
    scanPc \in {"done", "raised"} =>
        /\ scanPc = "done"
        /\ Len(get_ignore_spec(gitignore)) =
              Len(DefaultPatterns) + (IF gitignore.exists
                                      THEN Len(gitignore.lines) ELSE 0)
        /\ all_files = scan_files(tree, gitignore)

----------------------------------------------------------------------------
(* chatroom.ChatroomManager                                                *)

\* The project paths; _get_chatroom_file (lines 49-50) names one file per
\* path by its MD5 digest.
\* `with self.lock:` letting every thread in.
LockAcquirableAlways(lock) == TRUE

\* `with self.lock:` (chatroom.py lines 100 and 173, todo.py lines 105, 138
\* and 148): a thread enters when no thread holds the lock.
LockAcquirable(lock) == lock = 0

Projects == {"/p", "/q"}

AgentNames == {"a"}

\* A text that UTF-8 cannot encode (a str holding a lone surrogate).
Unencodable == "\\ud800"

MessageTexts == {"hi", "yo", Unencodable}

\* The limits read_messages is called with.
Limits == {0, 1, 2, 50}

\* The sends explored stop at this length of a log.
MaxMessages == 2

\* The sends explored: every project and text when the ChatroomManager runs
\* on its own, one project and one text when a TodoManager runs beside it.
SendProjects == IF todo_files = <<>> THEN Projects ELSE {"/p"}

SendTexts == IF todo_files = <<>> THEN MessageTexts ELSE {"hi"}

NoChatroom == [kind |-> "absent", messages |-> <<>>]

\* Line 105: f"msg_{n:06d}".
MsgId(n) ==
    LET d == NatStr(n)
    IN <<"m", "s", "g", "_">>
        \o [i \in 1..(IF Len(d) < 6 THEN 6 - Len(d) ELSE 0) |-> "0"] \o d

\* Lines 106-111: new_message (the timestamp, which no property here reads,
\* is left out).
NewMessage(n, agent, text) ==
    [message_id |-> MsgId(n), agent_name |-> agent, message |-> text]

\* Lines 52-73: _read_chatroom.  A missing file gives a new chatroom, a
\* file that is not JSON makes json.load raise.
read_chatroom(file) ==
    IF file.kind = "absent" THEN [ok |-> TRUE, messages |-> <<>>]
    ELSE IF file.kind = "json" THEN [ok |-> TRUE, messages |-> file.messages]
    ELSE [ok |-> FALSE, messages |-> <<>>]

\* Lines 75-86: _write_chatroom.  open(..., 'w') empties the file, json.dump
\* (ensure_ascii=False) writes into it and raises UnicodeEncodeError at a
\* text UTF-8 cannot encode: the file is left holding the JSON text up to
\* that point.
write_chatroom(msgs) ==
    IF \E i \in 1..Len(msgs) : msgs[i].message = Unencodable
    THEN [ok |-> FALSE, file |-> [kind |-> "corrupt", messages |-> <<>>]]
    ELSE [ok |-> TRUE, file |-> [kind |-> "json", messages |-> msgs]]

\* Lines 178-180: messages[-limit:] when len(messages) > limit, else all of
\* them; for limit = 0 the slice messages[-0:] is the whole list.
LastMessages(msgs, limit) ==
    IF Len(msgs) > limit
    THEN IF limit = 0 THEN msgs
         ELSE SubSeq(msgs, Len(msgs) - limit + 1, Len(msgs))
    ELSE msgs

\* A ChatroomManager over an empty chatrooms directory.
ChatInit ==
    /\ chat_files = [p \in Projects |-> NoChatroom]
    /\ chat_lock = 0
    /\ chat_pc = [t \in Threads |-> "idle"]
    /\ chat_call = [t \in Threads |-> NoCall]
    /\ chatroom_data = [t \in Threads |-> <<>>]
    /\ chat_ret = NoCall
    /\ llmCalls = <<>>
    /\ SelIdle /\ DiskIdle /\ ScanIdle /\ MtIdle /\ CtxIdle /\ ContentIdle
    /\ TodoIdle /\ AgentIdle

ChatUnchanged ==
    UNCHANGED <<selVars, diskVars, scanVars, mtVars, llmCalls, ctxVars,
                contentVars, todoVars, agentVars>>

\* Line 100: a thread enters send_message and takes the lock.
SendMessageCall(t) ==
    /\ chat_pc[t] = "idle"
    /\ LockAcquirable(chat_lock)
    /\ \E p \in SendProjects, a \in AgentNames, m \in SendTexts :
          /\ Len(chat_files[p].messages) < MaxMessages
          /\ chat_call' = [chat_call EXCEPT ![t] =
                [op |-> "send", project_path |-> p, agent_name |-> a,
                 message |-> m]]
    /\ chat_lock' = t
    /\ chat_pc' = [chat_pc EXCEPT ![t] = "send_locked"]
    /\ UNCHANGED <<chat_files, chatroom_data, chat_ret>>
    /\ ChatUnchanged

\* Line 102: chatroom_data = self._read_chatroom(project_path); an
\* exception of json.load leaves send_message and releases the lock.
SendReadChatroom(t) ==
    /\ chat_pc[t] = "send_locked"
    /\ LET r == read_chatroom(chat_files[chat_call[t].project_path])
       IN IF r.ok
          THEN /\ chatroom_data' = [chatroom_data EXCEPT ![t] = r.messages]
               /\ chat_pc' = [chat_pc EXCEPT ![t] = "send_read"]
               /\ UNCHANGED <<chat_lock, chat_call, chat_ret>>
          ELSE /\ chat_ret' = [op |-> "send", call |-> chat_call[t],
                               raised |-> TRUE, messages |-> <<>>]
               /\ chat_pc' = [chat_pc EXCEPT ![t] = "idle"]
               /\ chat_call' = [chat_call EXCEPT ![t] = NoCall]
               /\ chat_lock' = 0
               /\ UNCHANGED chatroom_data
    /\ UNCHANGED chat_files
    /\ ChatUnchanged

\* Lines 105-125: the message is numbered, appended and written back; the
\* call returns the new message (or the exception of the write) and the
\* lock is released.
SendWriteChatroom(t) ==
    /\ chat_pc[t] = "send_read"
    /\ LET c == chat_call[t]
           new_message == NewMessage(Len(chatroom_data[t]) + 1, c.agent_name,
                                     c.message)
           w == write_chatroom(Append(chatroom_data[t], new_message))
       IN /\ chat_files' = [chat_files EXCEPT ![c.project_path] = w.file]
          /\ chat_ret' = [op |-> "send", call |-> c, raised |-> ~w.ok,
                          messages |-> IF w.ok THEN <<new_message>> ELSE <<>>]
    /\ chat_pc' = [chat_pc EXCEPT ![t] = "idle"]
    /\ chat_call' = [chat_call EXCEPT ![t] = NoCall]
    /\ chatroom_data' = [chatroom_data EXCEPT ![t] = <<>>]
    /\ chat_lock' = 0
    /\ ChatUnchanged

\* Lines 162-180: read_messages(project_path, limit), under the lock from
\* its first line to its return.
ReadMessages(t) ==
    /\ chat_pc[t] = "idle"
    /\ LockAcquirable(chat_lock)
    /\ \E p \in Projects, limit \in Limits :
          LET r == read_chatroom(chat_files[p])
              c == [op |-> "read", project_path |-> p, limit |-> limit]
          IN chat_ret' = [op |-> "read", call |-> c, raised |-> ~r.ok,
                          messages |-> IF r.ok
                                       THEN LastMessages(r.messages, limit)
                                       ELSE <<>>]
    /\ UNCHANGED <<chat_files, chat_lock, chat_pc, chat_call, chatroom_data>>
    /\ ChatUnchanged

ChatNext ==
    \E t \in Threads :
        \/ SendMessageCall(t)
        \/ SendReadChatroom(t)
        \/ SendWriteChatroom(t)
        \/ ReadMessages(t)

SpecChat == ChatInit /\ [][ChatNext]_vars

\* The id of the message at position n of a log (n < 10).
IdAtPosition(n) == <<"m", "s", "g", "_", "0", "0", "0", "0", "0">> \o NatStr(n)

\* C19: the chat log of a project is append-only: a send_message that
\* returns a message has appended exactly that one message, with the id of
\* its position, at the end of that project's log; whenever a log changes,
\* it grows by one message and every earlier message keeps its place;
\* read_messages changes nothing; the ids of a log are 'msg_' plus the
\* zero-padded position.
C19_ChatLogAppendOnly ==
    [][/\ \A t \in Threads :
             (chat_pc[t] # "idle" /\ chat_pc'[t] = "idle"
                /\ ~chat_ret'.raised) =>
                LET c == chat_call[t]
                    old == chat_files[c.project_path].messages
                IN /\ chat_files'[c.project_path].kind = "json"
                   /\ chat_files'[c.project_path].messages =
                         Append(old, [message_id |-> IdAtPosition(Len(old) + 1),
                                      agent_name |-> c.agent_name,
                                      message |-> c.message])
       /\ \A p \in Projects :
             chat_files'[p] # chat_files[p] =>
                /\ chat_files'[p].kind = "json"
                /\ Len(chat_files'[p].messages) = Len(chat_files[p].messages) + 1
                /\ SubSeq(chat_files'[p].messages, 1, Len(chat_files[p].messages))
                      = chat_files[p].messages
       /\ (chat_ret' # chat_ret /\ chat_ret'.op = "read") =>
             chat_files' = chat_files
       /\ \A p \in Projects :
             \A i \in 1..Len(chat_files'[p].messages) :
                chat_files'[p].messages[i].message_id = IdAtPosition(i)
      ]_vars

\* C20: read_messages on a log of n messages returns at most limit
\* messages: the min(limit, n) most recent ones, oldest first.
C20_ReadReturnsMostRecentLimit ==
    [][(chat_ret' # chat_ret /\ chat_ret'.op = "read" /\ ~chat_ret'.raised) =>
          LET log == chat_files[chat_ret'.call.project_path].messages
              n == Len(log)
              limit == chat_ret'.call.limit
              k == IF limit < n THEN limit ELSE n
          IN /\ Len(chat_ret'.messages) <= limit
             /\ chat_ret'.messages = SubSeq(log, n - k + 1, n)
      ]_vars

----------------------------------------------------------------------------
(* todo.TodoManager                                                        *)

\* The one project whose todo list is explored.
TodoProjects == {"/p"}

NoTodoFile == [kind |-> "absent", todos |-> <<>>]

\* Lines 21-23.
STATUS_PENDING == "pending"
STATUS_IN_PROGRESS == "in_progress"
STATUS_COMPLETED == "completed"

\* Lines 26-30: STATUS_TO_MARKER.get(status, "[ ]").
STATUS_TO_MARKER(status) ==
    IF status = STATUS_IN_PROGRESS THEN <<"[", "~", "]">>
    ELSE IF status = STATUS_COMPLETED THEN <<"[", "x", "]">>
    ELSE <<"[", " ", "]">>

\* Lines 32-36 and 86-87: MARKER_TO_STATUS.get(f"[{status_char}]", pending).
MARKER_TO_STATUS(status_char) ==
    IF status_char = "~" THEN STATUS_IN_PROGRESS
    ELSE IF status_char = "x" THEN STATUS_COMPLETED
    ELSE STATUS_PENDING

\* What _parse_task_line returns for a line that does not match.
NoTask == [ok |-> FALSE, id |-> <<>>, status |-> STATUS_PENDING,
           content |-> <<>>]

\* The length of the longest run of characters of `chars` that s starts with.
RECURSIVE RunLen(_, _)
RunLen(s, chars) ==
    IF s # <<>> /\ Head(s) \in chars THEN 1 + RunLen(Tail(s), chars) ELSE 0

\* Lines 76-93: _parse_task_line.  TASK_PATTERN (line 39) is
\* ^\[([0-9.]+)\]\s*\[([ ~x])\]\s*(.+)$ on the stripped line.
parse_task_line(line) ==
    LET l == Strip(line, Whitespace)
        n == IF l # <<>> /\ Head(l) = "[" THEN RunLen(Tail(l), Digits \cup {"."})
             ELSE 0
        afterId == SubSeq(l, n + 2, Len(l))
        r1 == IF afterId # <<>> /\ Head(afterId) = "]"
              THEN LStrip(Tail(afterId), Whitespace) ELSE <<>>
        r2 == IF Len(r1) >= 3 /\ r1[1] = "[" /\ r1[2] \in {" ", "~", "x"}
                 /\ r1[3] = "]"
              THEN LStrip(SubSeq(r1, 4, Len(r1)), Whitespace) ELSE <<>>
    IN IF n >= 1 /\ r2 # <<>>
       THEN [ok |-> TRUE, id |-> SubSeq(l, 2, n + 1),
             status |-> MARKER_TO_STATUS(r1[2]),
             content |-> Strip(r2, Whitespace)]
       ELSE NoTask

\* The task dict of a parsed line (lines 89-93).
TaskOf(parsed) ==
    [id |-> parsed.id, status |-> parsed.status, content |-> parsed.content]

\* id_str.split('.') (line 64).
RECURSIVE SplitDot(_)
SplitDot(s) ==
    IF ~Contains(s, <<".">>) THEN <<s>>
    ELSE LET head == SplitFirst(s, <<".">>)
         IN <<head>> \o SplitDot(SubSeq(s, Len(head) + 2, Len(s)))

\* float('inf') of line 73, as a number above every component.
Inf == 2000000000

\* Lines 62-65 and 69-73: sort_key.  int(p) raises ValueError on an empty
\* component ('1.', '.', '1..2'), and the key is then (inf,).
sort_key(todo) ==
    LET parts == SplitDot(todo.id)
    IN IF \E i \in 1..Len(parts) :
             parts[i] = <<>> \/ ~(Range(parts[i]) \subseteq Digits)
       THEN <<Inf>>
       ELSE [i \in 1..Len(parts) |-> DigitsValue(parts[i])]

\* Python's a < b on tuples of numbers.
RECURSIVE TupleLess(_, _)
TupleLess(a, b) ==
    IF b = <<>> THEN FALSE
    ELSE IF a = <<>> THEN TRUE
    ELSE IF Head(a) = Head(b) THEN TupleLess(Tail(a), Tail(b))
    ELSE Head(a) < Head(b)

\* One element placed into a sorted list after the elements that do not
\* sort after it (sorted() is stable).
InsertByKey(l, x) ==
    LET k == Cardinality({i \in 1..Len(l) :
                            ~TupleLess(sort_key(x), sort_key(l[i]))})
    IN SubSeq(l, 1, k) \o <<x>> \o SubSeq(l, k + 1, Len(l))

\* Line 74 without the sort: the list as it came.
sort_todos_unsorted(l) == l

\* Lines 67-74: _sort_todos, sorted(todos, key=sort_key).
RECURSIVE sort_todos(_)
sort_todos(l) ==
    IF l = <<>> THEN <<>>
    ELSE InsertByKey(sort_todos(SubSeq(l, 1, Len(l) - 1)), l[Len(l)])

\* Lines 50-55: _read_todos.  A missing file gives [], a file that is not
\* JSON makes json.load raise.
read_todos(file) ==
    IF file.kind = "absent" THEN [ok |-> TRUE, todos |-> <<>>]
    ELSE IF file.kind = "json" THEN [ok |-> TRUE, todos |-> file.todos]
    ELSE [ok |-> FALSE, todos |-> <<>>]

\* Lines 57-60: _write_todos.  open(..., 'w') empties the file and json.dump
\* (ensure_ascii=False) raises UnicodeEncodeError at a content UTF-8 cannot
\* encode, leaving the JSON text written up to that point.
write_todos(l) ==
    IF \E i \in 1..Len(l) : Unencodable \in Range(l[i].content)
    THEN [ok |-> FALSE, file |-> [kind |-> "corrupt", todos |-> <<>>]]
    ELSE [ok |-> TRUE, file |-> [kind |-> "json", todos |-> l]]

\* Lines 119-127: one parsed line applied to todo_map (a dict keeps the
\* order in which its keys were first inserted).
ApplyTask(l, parsed) ==
    IF \E i \in 1..Len(l) : l[i].id = parsed.id
    THEN [i \in 1..Len(l) |->
            IF l[i].id = parsed.id
            THEN [l[i] EXCEPT !.status = parsed.status,
                              !.content = parsed.content]
            ELSE l[i]]
    ELSE Append(l, TaskOf(parsed))

\* Lines 110-127: the first n lines of the text applied in order; blank and
\* malformed lines are skipped.  (tasks_text.strip() of line 110 removes
\* only white space that line.strip() of lines 112 and 78 removes as well.)
RECURSIVE ApplyLines(_, _, _)
ApplyLines(l, lines, n) ==
    IF n = 0 THEN l
    ELSE LET before == ApplyLines(l, lines, n - 1)
             parsed == parse_task_line(lines[n])
         IN IF Strip(lines[n], Whitespace) = <<>> \/ ~parsed.ok
            THEN before
            ELSE ApplyTask(before, parsed)

\* Line 141 removing the subtasks of a listed id as well.
RemoveListedWithSubtasks(l, task_ids) ==
    SelectSeq(l, LAMBDA t :
        \A i \in 1..Len(task_ids) :
            ~(t.id = task_ids[i] \/ OccursAt(t.id, task_ids[i] \o <<".">>, 1)))

\* Lines 140-141: [t for t in todos if t["id"] not in ids_set].
RemoveListed(l, task_ids) ==
    SelectSeq(l, LAMBDA t : t.id \notin Range(task_ids))

\* The clipboard sign U+1F4CB of line 155.
Clipboard == "U+1F4CB"

\* "  " * depth (lines 166-167): two blanks per '.' of the id.
RECURSIVE Indent(_)
Indent(task_id) ==
    IF task_id = <<>> THEN <<>>
    ELSE (IF Head(task_id) = "." THEN <<" ", " ">> ELSE <<>>)
            \o Indent(Tail(task_id))

\* Lines 152-171: format_todos, as the lines of the returned text.
format_todos(l) ==
    IF l = <<>>
    THEN << <<Clipboard, " ", "N", "o", " ", "t", "a", "s", "k", "s", ".">> >>
    ELSE [i \in 1..Len(l) |->
            Indent(l[i].id) \o <<"[">> \o l[i].id \o <<"]">>
                \o STATUS_TO_MARKER(l[i].status) \o <<" ">> \o l[i].content]

\* The lines update_tasks is given.
\* [1][ ] a
LineOne == <<"[", "1", "]", "[", " ", "]", " ", "a">>
\* [1][x] b : the task 1 completed, with another content
LineOneDone == <<"[", "1", "]", "[", "x", "]", " ", "b">>
\* [2][~] a
LineTwo == <<"[", "2", "]", "[", "~", "]", " ", "a">>
\* [2.10][ ] a
LineTwoTen == <<"[", "2", ".", "1", "0", "]", "[", " ", "]", " ", "a">>
\* ' [2.2] [x]  b' : indented, blanks between the brackets
LineTwoTwo == <<" ", "[", "2", ".", "2", "]", " ", "[", "x", "]", " ", " ", "b">>
\* [1.][ ] a : an id whose last component is empty
LineOneDot == <<"[", "1", ".", "]", "[", " ", "]", " ", "a">>
\* [3][ ] : no content
LineNoContent == <<"[", "3", "]", "[", " ", "]">>
\* [1][X] a : not a status marker
LineBadStatus == <<"[", "1", "]", "[", "X", "]", " ", "a">>
\* note
LineProse == <<"n", "o", "t", "e">>
\* [3][ ] and a content UTF-8 cannot encode
LineSurrogate == <<"[", "3", "]", "[", " ", "]", " ", Unencodable>>

WellFormedLines == {LineOne, LineOneDone, LineTwo, LineTwoTen, LineTwoTwo,
                    LineOneDot, LineSurrogate}

MalformedLines == {LineNoContent, LineBadStatus, LineProse, <<>>}

\* The texts update_tasks is given, as their lines: every line alone, lines
\* out of id order, one id twice, a malformed line before a well-formed one.
AllTaskTexts ==
    {<<l>> : l \in WellFormedLines \cup MalformedLines}
        \cup {<<LineTwo, LineOne>>, <<LineOne, LineOneDone>>,
              <<LineProse, LineTwoTen>>, <<LineOneDot, LineTwoTwo>>}

\* The id lists remove_tasks is given ("9" is the id of no task).
AllRemoveLists ==
    {<<>>, <<<<"1">>>>, <<<<"2">>, <<"9">>>>, <<<<"1", ".">>, <<"2", ".", "1", "0">>>>, <<<<"2", ".", "2">>, <<"2", ".", "2">>>>}

\* The calls explored: all of them when the TodoManager runs on its own, a
\* few when a ChatroomManager runs beside it.
TaskTexts ==
    IF chat_files = <<>> THEN AllTaskTexts
    ELSE {<<LineOne>>, <<LineTwo>>, <<LineOneDone>>}

RemoveLists == IF chat_files = <<>> THEN AllRemoveLists ELSE {<<<<"1">>>>}

\* A TodoManager over an empty todos directory.
TodoInit ==
    /\ todo_files = [p \in TodoProjects |-> NoTodoFile]
    /\ todo_lock = 0
    /\ todo_pc = [t \in Threads |-> "idle"]
    /\ todo_call = [t \in Threads |-> NoCall]
    /\ todos = [t \in Threads |-> <<>>]
    /\ todo_ret = NoCall
    /\ llmCalls = <<>>
    /\ SelIdle /\ DiskIdle /\ ScanIdle /\ MtIdle /\ CtxIdle /\ ContentIdle
    /\ ChatIdle /\ AgentIdle

TodoUnchanged ==
    UNCHANGED <<selVars, diskVars, scanVars, mtVars, llmCalls, ctxVars,
                contentVars, chatVars, agentVars>>

\* A call that ends: its result, the lock released.
TodoReturn(t, ret) ==
    /\ todo_ret' = ret
    /\ todo_pc' = [todo_pc EXCEPT ![t] = "idle"]
    /\ todo_call' = [todo_call EXCEPT ![t] = NoCall]
    /\ todos' = [todos EXCEPT ![t] = <<>>]
    /\ todo_lock' = 0

\* A call in which t has read the list and goes on under the lock.
TodoProceed(t, c, r, pc) ==
    IF r.ok
    THEN /\ todos' = [todos EXCEPT ![t] = r.todos]
         /\ todo_pc' = [todo_pc EXCEPT ![t] = pc]
         /\ todo_call' = [todo_call EXCEPT ![t] = c]
         /\ todo_lock' = t
         /\ UNCHANGED todo_ret
    ELSE /\ todo_ret' = [op |-> c.op, call |-> c, raised |-> TRUE,
                         read |-> <<>>, todos |-> <<>>, text |-> <<>>]
         /\ UNCHANGED <<todo_lock, todo_pc, todo_call, todos>>

\* Lines 105-106: a thread enters update_tasks, takes the lock and reads
\* the stored list; an exception of json.load leaves the call.
UpdateTasksRead(t) ==
    /\ todo_pc[t] = "idle"
    /\ LockAcquirable(todo_lock)
    /\ \E p \in TodoProjects, text \in TaskTexts :
          TodoProceed(t, [op |-> "update", project_path |-> p,
                          tasks_text |-> text],
                      read_todos(todo_files[p]), "update")
    /\ UNCHANGED todo_files
    /\ TodoUnchanged

\* Lines 107-134: the lines are applied, the list is sorted and written
\* back and its formatted text is returned (or the exception of the write
\* leaves the call); the lock is released.
UpdateTasksWrite(t) ==
    /\ todo_pc[t] = "update"
    /\ LET c == todo_call[t]
           l == sort_todos(ApplyLines(todos[t], c.tasks_text,
                                      Len(c.tasks_text)))
           w == write_todos(l)
       IN /\ todo_files' = [todo_files EXCEPT ![c.project_path] = w.file]
          /\ TodoReturn(t, [op |-> "update", call |-> c, raised |-> ~w.ok,
                            read |-> todos[t],
                            todos |-> IF w.ok THEN l ELSE <<>>,
                            text |-> IF w.ok THEN format_todos(l) ELSE <<>>])
    /\ TodoUnchanged

\* Lines 138-139: a thread enters remove_tasks, takes the lock and reads.
RemoveTasksRead(t) ==
    /\ todo_pc[t] = "idle"
    /\ LockAcquirable(todo_lock)
    /\ \E p \in TodoProjects, ids \in RemoveLists :
          TodoProceed(t, [op |-> "remove", project_path |-> p,
                          task_ids |-> ids],
                      read_todos(todo_files[p]), "remove")
    /\ UNCHANGED todo_files
    /\ TodoUnchanged

\* Lines 140-144: the listed tasks are dropped, the rest is sorted,
\* written back and returned as formatted text; the lock is released.
RemoveTasksWrite(t) ==
    /\ todo_pc[t] = "remove"
    /\ LET c == todo_call[t]
           l == sort_todos(RemoveListed(todos[t], c.task_ids))
           w == write_todos(l)
       IN /\ todo_files' = [todo_files EXCEPT ![c.project_path] = w.file]
          /\ TodoReturn(t, [op |-> "remove", call |-> c, raised |-> ~w.ok,
                            read |-> todos[t],
                            todos |-> IF w.ok THEN l ELSE <<>>,
                            text |-> IF w.ok THEN format_todos(l) ELSE <<>>])
    /\ TodoUnchanged

\* Lines 146-150: list_todos, under the lock from its first line to its
\* return.
ListTodos(t) ==
    /\ todo_pc[t] = "idle"
    /\ LockAcquirable(todo_lock)
    /\ \E p \in TodoProjects :
          LET r == read_todos(todo_files[p])
              c == [op |-> "list", project_path |-> p]
          IN todo_ret' = [op |-> "list", call |-> c, raised |-> ~r.ok,
                          read |-> r.todos, todos |-> sort_todos(r.todos),
                          text |-> <<>>]
    /\ UNCHANGED <<todo_files, todo_lock, todo_pc, todo_call, todos>>
    /\ TodoUnchanged

TodoNext ==
    \E t \in Threads :
        \/ UpdateTasksRead(t)
        \/ UpdateTasksWrite(t)
        \/ RemoveTasksRead(t)
        \/ RemoveTasksWrite(t)
        \/ ListTodos(t)

SpecTodo == TodoInit /\ [][TodoNext]_vars

\* The indices of the well-formed lines of a text, and the ids they name.
WellFormedAt(text) == {i \in 1..Len(text) : parse_task_line(text[i]).ok}

MentionedIds(text) == {parse_task_line(text[i]).id : i \in WellFormedAt(text)}

\* The last well-formed line of the text that names the id.
LastLineFor(text, id) ==
    LET at == {i \in WellFormedAt(text) : parse_task_line(text[i]).id = id}
    IN parse_task_line(text[CHOOSE i \in at : \A j \in at : j <= i])

\* What a finished update_tasks call of thread t has made of the store:
\* for every id a line names, exactly one task with the status and content
\* of the (last) line naming it; every task whose id no line names is
\* still stored with its status and content; nothing else is stored.
UpdateApplied(t) ==
    LET c == todo_call[t]
        old == todo_files[c.project_path].todos
        new == todo_files'[c.project_path]
        ids == MentionedIds(c.tasks_text)
    IN /\ new.kind = "json"
       /\ \A id \in ids :
             LET line == LastLineFor(c.tasks_text, id)
                 at == {j \in 1..Len(new.todos) : new.todos[j].id = id}
             IN /\ Cardinality(at) = 1
                /\ \A j \in at :
                      /\ new.todos[j].status = line.status
                      /\ new.todos[j].content = line.content
       /\ \A i \in 1..Len(old) :
             old[i].id \notin ids => old[i] \in Range(new.todos)
       /\ \A j \in 1..Len(new.todos) :
             new.todos[j].id \in ids \/ new.todos[j] \in Range(old)
       /\ ids = {} => Range(new.todos) = Range(old)

\* C21: update_tasks applies the well-formed lines of its text: an id that
\* is stored gets the line's status and content, an id that is not stored
\* is added, the tasks no line names keep their status and content, and
\* malformed lines have no effect on the stored list.
C21_UpdateAppliesWellFormedLines ==
    [][\A t \in Threads :
          (todo_pc[t] = "update" /\ todo_pc'[t] = "idle") => UpdateApplied(t)
      ]_vars

\* The ids of a task list, in its order.
IdsOf(l) == [i \in 1..Len(l) |-> l[i].id]

\* Every dot-separated component of the id is a number.
IdParses(id) ==
    \A i \in 1..Len(SplitDot(id)) :
        SplitDot(id)[i] # <<>> /\ Range(SplitDot(id)[i]) \subseteq Digits

\* The components of an id as integers (an empty component counts as 0).
IdTuple(id) == [i \in 1..Len(SplitDot(id)) |-> DigitsValue(SplitDot(id)[i])]

\* No id twice; the ids that parse come first, in the order of their
\* integer components; the ids that do not parse follow them.
OrderedUnparseableLast(l) ==
    \A i, j \in 1..Len(l) :
        i < j =>
            /\ l[i].id # l[j].id
            /\ IdParses(l[j].id) =>
                  /\ IdParses(l[i].id)
                  /\ ~TupleLess(IdTuple(l[j].id), IdTuple(l[i].id))

\* No id twice, and the ids in the order of their integer components.
OrderedByComponents(l) ==
    \A i, j \in 1..Len(l) :
        i < j =>
            /\ l[i].id # l[j].id
            /\ ~TupleLess(IdTuple(l[j].id), IdTuple(l[i].id))

\* A returned text names the tasks of the list, one per line, in order.
TextFollows(text, l) ==
    l # <<>> =>
        /\ Len(text) = Len(l)
        /\ \A i \in 1..Len(l) :
              OccursAt(LStrip(text[i], {" "}),
                       <<"[">> \o l[i].id \o <<"]">>, 1)

\* C22 (as the code has it): a stored task list, and the list update_tasks
\* or remove_tasks returns, holds no id twice and is sorted by the integer
\* components of the ids (2 < 2.1 < 2.2 < 2.10 < 3) as far as the ids
\* parse; the tasks whose id has a component that is not a number ('1.')
\* come after all the others.
C22_SortedUnparseableIdsLast ==
    /\ \A p \in DOMAIN todo_files :
          todo_files[p].kind = "json" =>
              OrderedUnparseableLast(todo_files[p].todos)
    /\ (todo_ret.op \in {"update", "remove"} /\ ~todo_ret.raised) =>
          /\ OrderedUnparseableLast(todo_ret.todos)
          /\ TextFollows(todo_ret.text, todo_ret.todos)

\* C22 witness: an update has returned and the store holds 2, 2.2, 2.10
\* in that order and the unparseable id 1. after them.
C22_Witness ==
    /\ todo_ret.op = "update"
    /\ ~todo_ret.raised
    /\ \E p \in DOMAIN todo_files :
          /\ todo_files[p].kind = "json"
          /\ IdsOf(todo_files[p].todos) = <<<<"2">>, <<"2", ".", "2">>, <<"2", ".", "1", "0">>, <<"1", ".">>>>
          /\ todo_ret.todos = todo_files[p].todos

\* C22 as stated: the stored list and the returned list are sorted by the
\* integer components of the ids, and no id occurs twice.
C22_SortedByHierarchicalId ==
    /\ \A p \in DOMAIN todo_files :
          todo_files[p].kind = "json" =>
              OrderedByComponents(todo_files[p].todos)
    /\ (todo_ret.op \in {"update", "remove"} /\ ~todo_ret.raised) =>
          OrderedByComponents(todo_ret.todos)

\* What a finished remove_tasks call of thread t has made of the store: the
\* tasks that are not listed are still stored, with their status and
\* content, and nothing else is.
RemoveApplied(t) ==
    LET c == todo_call[t]
        old == todo_files[c.project_path].todos
        new == todo_files'[c.project_path]
        ids == Range(c.task_ids)
    IN /\ new.kind = "json"
       /\ ~todo_ret'.raised
       /\ \A i \in 1..Len(old) :
             old[i].id \notin ids => old[i] \in Range(new.todos)
       /\ \A j \in 1..Len(new.todos) :
             /\ new.todos[j] \in Range(old)
             /\ new.todos[j].id \notin ids
       /\ Len(new.todos) =
             Cardinality({i \in 1..Len(old) : old[i].id \notin ids})

\* C23: remove_tasks deletes exactly the tasks whose ids are listed: the
\* tasks that are not listed stay stored, with their status and content,
\* nothing else is stored, and an id that names no task changes nothing.
C23_RemoveDeletesExactlyListed ==
    [][\A t \in Threads :
          (todo_pc[t] = "remove" /\ todo_pc'[t] = "idle") => RemoveApplied(t)
      ]_vars

\* C23 witness: remove_tasks(["2", "9"]) has returned on a list that held
\* the tasks 2 and 2.10; 9 named no task, 2.10 is still there.
C23_Witness ==
    /\ todo_ret.op = "remove"
    /\ ~todo_ret.raised
    /\ todo_ret.call.task_ids = <<<<"2">>, <<"9">>>>
    /\ <<"2">> \in Range(IdsOf(todo_ret.read))
    /\ <<"2", ".", "1", "0">> \in Range(IdsOf(todo_ret.read))
    /\ <<"2", ".", "1", "0">> \in Range(IdsOf(todo_ret.todos))
    /\ <<"2">> \notin Range(IdsOf(todo_ret.todos))


----------------------------------------------------------------------------
(* Threads calling into one ChatroomManager and one TodoManager            *)

\* Both managers over empty directories.
ManagersInit ==
    /\ chat_files = [p \in Projects |-> NoChatroom]
    /\ chat_lock = 0
    /\ chat_pc = [t \in Threads |-> "idle"]
    /\ chat_call = [t \in Threads |-> NoCall]
    /\ chatroom_data = [t \in Threads |-> <<>>]
    /\ chat_ret = NoCall
    /\ todo_files = [p \in TodoProjects |-> NoTodoFile]
    /\ todo_lock = 0
    /\ todo_pc = [t \in Threads |-> "idle"]
    /\ todo_call = [t \in Threads |-> NoCall]
    /\ todos = [t \in Threads |-> <<>>]
    /\ todo_ret = NoCall
    /\ llmCalls = <<>>
    /\ SelIdle /\ DiskIdle /\ ScanIdle /\ MtIdle /\ CtxIdle /\ ContentIdle
    /\ AgentIdle

\* The writing calls of the two managers, interleaved step by step.
ManagersNext ==
    \E t \in Threads :
        \/ SendMessageCall(t)
        \/ SendReadChatroom(t)
        \/ SendWriteChatroom(t)
        \/ UpdateTasksRead(t)
        \/ UpdateTasksWrite(t)
        \/ RemoveTasksRead(t)
        \/ RemoveTasksWrite(t)

SpecManagers == ManagersInit /\ [][ManagersNext]_vars

\* C25: with threads calling send_message, update_tasks and remove_tasks
\* concurrently, every write is the call applied to the store as it is at
\* that moment (not to an older copy), so the store always equals the calls
\* applied one after the other in the order of their writes: a send appends
\* its message to the current log, an update or a remove leaves every
\* other task of the current list in place, and the message ids of a log
\* are pairwise different.
C25_WritesAreSerialized ==
    [][/\ \A t \in Threads :
             (chat_pc[t] = "send_read" /\ chat_pc'[t] = "idle") =>
                LET c == chat_call[t]
                    log == chat_files[c.project_path].messages
                    log2 == chat_files'[c.project_path].messages
                IN /\ Len(log2) = Len(log) + 1
                   /\ SubSeq(log2, 1, Len(log)) = log
                   /\ log2[Len(log2)].message = c.message
                   /\ log2[Len(log2)].agent_name = c.agent_name
       /\ \A p \in DOMAIN chat_files' :
             \A i, j \in 1..Len(chat_files'[p].messages) :
                i # j => chat_files'[p].messages[i].message_id
                            # chat_files'[p].messages[j].message_id
       /\ \A t \in Threads :
             (todo_pc[t] = "update" /\ todo_pc'[t] = "idle") =>
                UpdateApplied(t)
       /\ \A t \in Threads :
             (todo_pc[t] = "remove" /\ todo_pc'[t] = "idle") =>
                RemoveApplied(t)
       /\ \A t \in Threads :
             /\ chat_lock' = t <=> chat_pc'[t] # "idle"
             /\ todo_lock' = t <=> todo_pc'[t] # "idle"
      ]_vars

\* C25 witness: thread 1 is inside send_message on a log that already holds
\* a message while thread 2 has not entered, and thread 2 is inside
\* update_tasks on a list that already holds a task while thread 1 has not
\* entered.
C25_Witness ==
    /\ chat_lock = 1
    /\ chat_pc[1] = "send_read"
    /\ chat_pc[2] = "idle"
    /\ chatroom_data[1] # <<>>
    /\ todo_lock = 2
    /\ todo_pc[2] = "update"
    /\ todo_pc[1] = "idle"
    /\ todos[2] # <<>>

----------------------------------------------------------------------------
(* subagent.SubAgent: execute_task and its tools                           *)

\* Line 509.
max_iterations == 15

\* The replies of the LLM vary freely during this many iterations of the
\* loop; afterwards a reply with tool calls is one list_directory call.
MaxVariedIterations == 2

\* The methods class ContextEngine defines (context_engine.py lines 26-243).
ContextEngineMethods ==
    {"__init__", "get_ignore_spec", "scan_files", "add_line_numbers",
     "get_file_content", "select_relevant_files", "generate_search_queries",
     "get_search_match_counts", "get_codebase_context"}

\* The engines a SubAgent is constructed with: none (the default of line
\* 20) or the ContextEngine of mcp_server.py lines 224-225.
Engines == {"None", "ContextEngine"}

NotAvailable == "Context engine not available"
ErrorCalling == "Error calling context engine"
UnknownTool == "Unknown tool"

\* The answer of the engine to the question for the working directory.
EngineAnswer == "answer"

\* Lines 392-415: _call_context_engine.  Line 404 calls
\* self.context_engine.get_context; on an engine without that method the
\* attribute lookup raises AttributeError, which line 411 turns into an
\* error result.
call_context_engine(engine) ==
    IF engine = "None"
    THEN [success |-> FALSE, error |-> NotAvailable, answer |-> ""]
    ELSE IF "get_context" \notin ContextEngineMethods
    THEN [success |-> FALSE, error |-> ErrorCalling, answer |-> ""]
    ELSE [success |-> TRUE, error |-> "", answer |-> EngineAnswer]

\* The tool calls an assistant message carries.  arguments is "valid",
\* "not_json" (json.loads of line 550 raises) or "missing_key" (valid JSON
\* without the key _execute_tool indexes: KeyError at lines 428-456).
CallList == [id |-> "c1", name |-> "list_directory", arguments |-> "valid"]
CallEngine == [id |-> "c2", name |-> "context_engine", arguments |-> "valid"]
CallOther == [id |-> "c3", name |-> "run_shell", arguments |-> "valid"]
CallNotJson == [id |-> "c4", name |-> "read_file", arguments |-> "not_json"]
CallNoKey == [id |-> "c5", name |-> "read_file", arguments |-> "missing_key"]

\* Lines 427-459: the result _execute_tool computes for a call whose
\* arguments it can use.
ToolResult(call, engine) ==
    IF call.name = "list_directory"
    THEN [success |-> TRUE, error |-> "", answer |-> ""]
    ELSE IF call.name = "context_engine" THEN call_context_engine(engine)
    ELSE [success |-> FALSE, error |-> UnknownTool, answer |-> ""]

\* Lines 550-553: executing the call raises before a result exists.
ToolRaises(call) == call.arguments # "valid"

\* Lines 420-424 and 462: the entry of tool_history.
ToolCallLog(call, res) ==
    [tool_name |-> call.name, arguments |-> call.arguments, result |-> res]

Message(role, content) ==
    [role |-> role, content |-> content, tool_calls |-> <<>>,
     tool_call_id |-> ""]

\* Lines 531-545: the assistant message that carries tool calls.
AssistantMessage(calls) ==
    [role |-> "assistant", content |-> "", tool_calls |-> calls,
     tool_call_id |-> ""]

\* Lines 556-560 with the id of the call left out.
ToolMessageNoId(call, res) ==
    [role |-> "tool", content |-> res, tool_calls |-> <<>>,
     tool_call_id |-> ""]

\* Lines 556-560: the tool message of an executed call.
ToolMessage(call, res) ==
    [role |-> "tool", content |-> res, tool_calls |-> <<>>,
     tool_call_id |-> call.id]

\* The tool-call lists the LLM answers with in iteration n.
ToolCallReplies(n) ==
    IF n <= MaxVariedIterations
    THEN {<<CallList>>, <<CallEngine>>, <<CallList, CallEngine>>,
          <<CallOther, CallList>>, <<CallList, CallNotJson, CallEngine>>,
          <<CallNoKey>>}
    ELSE {<<CallList>>}

\* A SubAgent has been constructed and execute_task is entered.
AgentInit ==
    /\ context_engine \in Engines
    /\ context_path \in {"missing", "file", "dir"}
    /\ messages = <<>>
    /\ tool_history = <<>>
    /\ iteration = 0
    /\ execution_log = <<>>
    /\ tool_calls = <<>>
    /\ tool_idx = 0
    /\ response = <<>>
    /\ agPc = "start"
    /\ llmCalls = <<>>
    /\ SelIdle /\ DiskIdle /\ ScanIdle /\ MtIdle /\ CtxIdle /\ ContentIdle
    /\ ChatIdle /\ TodoIdle

AgentUnchanged ==
    UNCHANGED <<selVars, diskVars, scanVars, mtVars, ctxVars, contentVars,
                chatVars, todoVars>>

\* Lines 478-511: a missing path returns an error text; _get_file_tree
\* (line 494) lists the path with os.listdir (line 48), which raises
\* NotADirectoryError on a file, and only PermissionError is caught (line
\* 62); on a directory the conversation is set up.
ExecuteTask ==
    /\ agPc = "start"
    /\ IF context_path = "missing"
       THEN /\ response' = <<"error_path">>
            /\ agPc' = "returned"
            /\ UNCHANGED messages
       ELSE IF context_path = "file"
       THEN /\ agPc' = "raised"
            /\ UNCHANGED <<response, messages>>
       ELSE /\ messages' = <<Message("system", "prompt"),
                             Message("user", "task")>>
            /\ agPc' = "loop"
            /\ UNCHANGED response
    /\ UNCHANGED <<context_engine, context_path, tool_history, iteration,
                   execution_log, tool_calls, tool_idx, llmCalls>>
    /\ AgentUnchanged

\* Lines 513-545, 561-574 and 589-591: one pass of the loop up to the reply
\* of the LLM: tool calls (the assistant message is appended), a final
\* answer (it and the request for a summary are appended), or an exception.
CallLLM ==
    /\ agPc = "loop"
    /\ iteration < max_iterations
    /\ iteration' = iteration + 1
    /\ llmCalls' = LLMCall(llmCalls, "agent")
    /\ \/ \E calls \in ToolCallReplies(iteration + 1) :
             /\ messages' = Append(messages, AssistantMessage(calls))
             /\ tool_calls' = calls
             /\ tool_idx' = 0
             /\ agPc' = "tools"
             /\ UNCHANGED execution_log
       \/ /\ messages' = messages \o <<Message("assistant", "final"),
                                       Message("user", "summarise")>>
          /\ execution_log' = Append(execution_log, "final")
          /\ agPc' = "summary"
          /\ UNCHANGED <<tool_calls, tool_idx>>
       \/ /\ execution_log' = Append(execution_log, "error")
          /\ agPc' = "end"
          /\ UNCHANGED <<messages, tool_calls, tool_idx>>
    /\ UNCHANGED <<context_engine, context_path, tool_history, response>>
    /\ AgentUnchanged

\* Lines 548-560 and 589-591: the next tool call of the assistant message
\* is executed: its log entry and its tool message are appended, or its
\* exception ends the loop.  After the last call the loop goes on.
ExecuteToolCall ==
    /\ agPc = "tools"
    /\ tool_idx < Len(tool_calls)
    /\ LET call == tool_calls[tool_idx + 1]
           r == ToolResult(call, context_engine)
       IN IF ToolRaises(call)
          THEN /\ execution_log' = Append(execution_log, "error")
               /\ agPc' = "end"
               /\ UNCHANGED <<messages, tool_history, tool_idx>>
          ELSE /\ tool_history' = Append(tool_history, ToolCallLog(call, r))
               /\ messages' = Append(messages, ToolMessage(call, r))
               /\ tool_idx' = tool_idx + 1
               /\ agPc' = IF tool_idx + 1 = Len(tool_calls) THEN "loop"
                          ELSE "tools"
               /\ UNCHANGED execution_log
    /\ UNCHANGED <<context_engine, context_path, iteration, tool_calls,
                   response, llmCalls>>
    /\ AgentUnchanged

\* Lines 577-591: the summary call; its answer, or its exception, is logged
\* and the loop is left.
SummaryCall ==
    /\ agPc = "summary"
    /\ llmCalls' = LLMCall(llmCalls, "summary")
    /\ \E outcome \in {"summary", "error"} :
          execution_log' = Append(execution_log, outcome)
    /\ agPc' = "end"
    /\ UNCHANGED <<context_engine, context_path, messages, tool_history,
                   iteration, tool_calls, tool_idx, response>>
    /\ AgentUnchanged

\* Line 593: `if iteration >= max_iterations`.
WarningDue(n) == n >= max_iterations

\* Lines 593-622: after the loop (left by break or because the counter
\* reached the cap) the warning is added, the log file is written (a
\* failure adds a notice) and the formatted response is returned.
FormatResponse ==
    /\ agPc = "end" \/ (agPc = "loop" /\ iteration >= max_iterations)
    /\ \E log_notice \in {<<>>, <<"log_failed">>} :
          response' = execution_log
                \o (IF WarningDue(iteration) THEN <<"warning_max">>
                    ELSE <<>>)
                \o log_notice \o <<"modified", "log">>
    /\ agPc' = "returned"
    /\ UNCHANGED <<context_engine, context_path, messages, tool_history,
                   iteration, execution_log, tool_calls, tool_idx, llmCalls>>
    /\ AgentUnchanged

AgentNext ==
    \/ ExecuteTask
    \/ CallLLM
    \/ ExecuteToolCall
    \/ SummaryCall
    \/ FormatResponse

SpecAgent == AgentInit /\ [][AgentNext]_vars

\* C24: a context_engine tool call of a sub-agent that was constructed
\* with a context engine has a success result holding the engine's answer;
\* the 'Context engine not available' error is returned only when no
\* engine was supplied.
C24_ContextEngineToolAnswers ==
    \A i \in 1..Len(tool_history) :
        tool_history[i].tool_name = "context_engine" =>
            LET r == tool_history[i].result
            IN /\ context_engine # "None" =>
                     r.success /\ r.answer = EngineAnswer
               /\ r.error = NotAvailable => context_engine = "None"

\* How often the LLM was called for the purpose.
CallsFor(purpose) ==
    Cardinality({i \in 1..Len(llmCalls) : llmCalls[i] = purpose})

\* C26: execute_task never ends by raising, and it makes at most 15
\* tool-loop calls to the LLM and at most one summary call, however the
\* loop ends.
C26_ReturnsWithinCallBudget ==
    /\ agPc # "raised"
    /\ CallsFor("agent") <= 15
    /\ CallsFor("summary") <= 1
    /\ agPc = "returned" => response # <<>>

\* The iterations in which the LLM answered with tool calls.
ToolIterations ==
    Cardinality({k \in 1..Len(messages) :
                    messages[k].role = "assistant"
                        /\ messages[k].tool_calls # <<>>})

\* C27: a returned response holds the 'Reached maximum iterations' warning
\* only if each of the 15 iterations issued tool calls: never after a
\* final answer and never after an exception that ended the loop.
C27_WarningOnlyWhenLoopExhausted ==
    (agPc = "returned" /\ "warning_max" \in Range(response)) =>
        /\ ToolIterations = 15
        /\ "final" \notin Range(response)
        /\ "error" \notin Range(response)

\* The positions of the tool messages of the conversation, in order.
ToolMessageAt == {k \in 1..Len(messages) : messages[k].role = "tool"}

\* C28: whenever the LLM is about to be called again, every assistant
\* message that carries tool calls is followed directly by exactly one
\* tool message per call, in the order of the calls and with the ids of
\* the calls, and tool_history holds one entry per executed call, in the
\* same order, with the result its tool message reports.
C28_ToolMessagesAnswerEveryCall ==
    ((agPc = "loop" /\ iteration < max_iterations) \/ agPc = "summary") =>
        /\ \A k \in 1..Len(messages) :
              (messages[k].role = "assistant"
                  /\ messages[k].tool_calls # <<>>) =>
                 LET calls == messages[k].tool_calls
                     n == Len(calls)
                 IN /\ k + n <= Len(messages)
                    /\ \A i \in 1..n :
                          /\ messages[k + i].role = "tool"
                          /\ messages[k + i].tool_call_id = calls[i].id
                    /\ k + n < Len(messages) =>
                          messages[k + n + 1].role # "tool"
        /\ Len(tool_history) = Cardinality(ToolMessageAt)
        /\ \A k \in ToolMessageAt :
              LET j == Cardinality({h \in ToolMessageAt : h <= k})
              IN tool_history[j].result = messages[k].content

\* C28 witness: the LLM has been called again after an assistant message
\* with two tool calls, whose two tool messages follow it.
C28_Witness ==
    /\ agPc = "tools"
    /\ CallsFor("agent") >= 2
    /\ \E k \in 1..Len(messages) :
          /\ messages[k].role = "assistant"
          /\ Len(messages[k].tool_calls) = 2
          /\ k + 3 <= Len(messages)
          /\ messages[k + 1].tool_call_id = messages[k].tool_calls[1].id
          /\ messages[k + 2].tool_call_id = messages[k].tool_calls[2].id
          /\ messages[k + 3].role = "assistant"

=============================================================================
